---- MODULE Spec2Model ----
(***************************************************************************)
(* Model of the anvil-wallet signing core: UTXO selection and the BTC/ZEC  *)
(* transaction builders, the Solana instruction compiler and raw-          *)
(* transaction co-signer, and the wallet-core signing entry points.        *)
(*                                                                         *)
(* The library is stateless: every operation is a synchronous function of  *)
(* its arguments.  A behaviour of the model is one call: Init draws the    *)
(* arguments (call), the action of the called operation computes the       *)
(* result (ret) and the final contents of the caller's seed buffer (seed). *)
(* A signing function of a chain crate copies the private key into a local *)
(* array; key_copy is what that array holds when the function returns, or  *)
(* the empty sequence when the function returns before making the copy.    *)
(***************************************************************************)
EXTENDS Integers, Sequences, FiniteSets, TLC

VARIABLES call, ret, seed, key_copy

vars == <<call, ret, seed, key_copy>>

Pending == [status |-> "pending"]

(***************************************************************************)
(* Bounds of the model.                                                    *)
(***************************************************************************)
MaxUtxos == 3

\* u64 arithmetic wraps at U64_RANGE (a scaled stand-in for 2^64; the
\* inputs of Spec stay far below it, so no operation of Spec wraps).
U64_RANGE == 1048576

AddU64(a, b) == (a + b) % U64_RANGE
MulU64(a, b) == (a * b) % U64_RANGE
SaturatingSub(a, b) == IF a >= b THEN a - b ELSE 0

(***************************************************************************)
(* chain-btc: fee estimate and UTXO selection                              *)
(***************************************************************************)
P2WPKH_INPUT_VBYTES == 68
OUTPUT_VBYTES == 31
TX_OVERHEAD_VBYTES == 11
BTC_DUST_THRESHOLD == 546

estimate_fee(num_inputs, num_outputs, fee_rate) ==
    LET vsize == AddU64(AddU64(TX_OVERHEAD_VBYTES, MulU64(num_inputs, P2WPKH_INPUT_VBYTES)),
                        MulU64(num_outputs, OUTPUT_VBYTES))
    IN  MulU64(vsize, fee_rate)

\* sort_by(|a, b| b.amount.cmp(&a.amount)): a stable sort, descending by
\* amount. keys[i] is the amount of element i; the result is the order in
\* which the elements are visited (a sequence of indices into keys).
\* InsertDesc puts index j after every index whose key is >= keys[j].
RECURSIVE InsertDesc(_, _, _)
InsertDesc(order, j, keys) ==
    IF order = <<>> THEN <<j>>
    ELSE IF keys[Head(order)] >= keys[j]
         THEN <<Head(order)>> \o InsertDesc(Tail(order), j, keys)
         ELSE <<j>> \o order

RECURSIVE SortOrderDesc(_, _)
SortOrderDesc(n, keys) ==
    IF n = 0 THEN <<>> ELSE InsertDesc(SortOrderDesc(n - 1, keys), n, keys)

\* Mutant of BtcSorted: the UTXOs are taken in the order supplied.
BtcSorted_InputOrder(utxos) == utxos

BtcSorted(utxos) ==
    LET keys  == [i \in 1..Len(utxos) |-> utxos[i].amount_sat]
        order == SortOrderDesc(Len(utxos), keys)
    IN  [i \in 1..Len(utxos) |-> utxos[order[i]]]

\* Mutant of BtcSelectLoop: the loop compares the total with the target
\* alone and forgets the fee.
RECURSIVE BtcSelectLoop_IgnoresFee(_, _, _, _, _)
BtcSelectLoop_IgnoresFee(sorted, i, total, target_sat, fee_rate) ==
    IF i > Len(sorted)
    THEN [covered |-> FALSE, n |-> Len(sorted), total_sat |-> total]
    ELSE LET t == AddU64(total, sorted[i].amount_sat)
         IN  IF t >= target_sat
             THEN [covered |-> TRUE, n |-> i, total_sat |-> t]
             ELSE BtcSelectLoop_IgnoresFee(sorted, i + 1, t, target_sat, fee_rate)

\* The accumulation loop of select_utxos: i is the number of UTXOs pushed
\* so far. Returns whether the loop returned early, the number selected and
\* the running total.
RECURSIVE BtcSelectLoop(_, _, _, _, _)
BtcSelectLoop(sorted, i, total, target_sat, fee_rate) ==
    IF i > Len(sorted)
    THEN [covered |-> FALSE, n |-> Len(sorted), total_sat |-> total]
    ELSE LET t   == AddU64(total, sorted[i].amount_sat)
             fee == estimate_fee(i, 2, fee_rate)
         IN  IF t >= AddU64(target_sat, fee)
             THEN [covered |-> TRUE, n |-> i, total_sat |-> t]
             ELSE BtcSelectLoop(sorted, i + 1, t, target_sat, fee_rate)

select_utxos(utxos, target_sat, fee_rate) ==
    IF utxos = <<>>
    THEN [status |-> "Err", kind |-> "TransactionBuildError", msg |-> "no UTXOs available"]
    ELSE LET sorted == BtcSorted(utxos)
             r      == BtcSelectLoop(sorted, 1, 0, target_sat, fee_rate)
             fee    == estimate_fee(r.n, 2, fee_rate)
         IN  IF r.covered \/ r.total_sat >= AddU64(target_sat, fee)
             THEN [status |-> "Ok", selected |-> SubSeq(sorted, 1, r.n), total_sat |-> r.total_sat]
             ELSE [status |-> "Err", kind |-> "TransactionBuildError", msg |-> "insufficient funds",
                   needed |-> AddU64(target_sat, fee), available |-> r.total_sat]

(***************************************************************************)
(* chain-btc: build_p2wpkh_transaction                                     *)
(***************************************************************************)
\* An address string is modelled by what parsing makes of it: whether it
\* parses at all, the network its prefix names, and the script it pays to.
\* require_network accepts a "tb1"/testnet address for Testnet and Signet.
BtcAddrValidFor(addr, net) ==
    IF addr.net = "Bitcoin" THEN net = "Bitcoin" ELSE net \in {"Testnet", "Signet"}

to_bitcoin_network(network) ==
    CASE network = "Mainnet" -> "Bitcoin"
      [] network = "Testnet" -> "Testnet"
      [] network = "Signet"  -> "Signet"

BtcParseAddress(addr, net, who) ==
    IF ~addr.well_formed
    THEN [status |-> "Err", kind |-> "InvalidAddress", msg |-> "invalid " \o who \o " address"]
    ELSE IF ~BtcAddrValidFor(addr, net)
    THEN [status |-> "Err", kind |-> "InvalidAddress", msg |-> who \o " address wrong network"]
    ELSE [status |-> "Ok", script_pubkey |-> addr.script]

\* Index of the first selected UTXO whose txid does not parse, 0 if none.
RECURSIVE FirstBadTxid(_, _)
FirstBadTxid(selected, i) ==
    IF i > Len(selected) THEN 0
    ELSE IF ~selected[i].txid_ok THEN i
    ELSE FirstBadTxid(selected, i + 1)

BtcInputs(selected) ==
    [i \in 1..Len(selected) |->
        [previous_output |-> [txid |-> selected[i].txid, vout |-> selected[i].vout],
         script_sig |-> <<>>, witness |-> <<>>]]

BtcPrevouts(selected) ==
    [i \in 1..Len(selected) |->
        [value |-> selected[i].amount_sat, script_pubkey |-> selected[i].script_pubkey]]

\* Mutant of BtcOutputs: the change is computed with the 1-output fee.
BtcOutputs_OneOutputFee(total_sat, n, amount_sat, fee_rate, recipient_script, change_script) ==
    LET fee_1_output == estimate_fee(n, 1, fee_rate)
        change_sat   == SaturatingSub(total_sat, AddU64(amount_sat, fee_1_output))
    IN  IF change_sat > BTC_DUST_THRESHOLD
        THEN << [value |-> amount_sat, script_pubkey |-> recipient_script],
                [value |-> change_sat, script_pubkey |-> change_script] >>
        ELSE << [value |-> amount_sat, script_pubkey |-> recipient_script] >>

BtcOutputs(total_sat, n, amount_sat, fee_rate, recipient_script, change_script) ==
    LET fee_2_outputs == estimate_fee(n, 2, fee_rate)
        change_sat    == SaturatingSub(total_sat, AddU64(amount_sat, fee_2_outputs))
    IN  IF change_sat > BTC_DUST_THRESHOLD
        THEN << [value |-> amount_sat, script_pubkey |-> recipient_script],
                [value |-> change_sat, script_pubkey |-> change_script] >>
        ELSE << [value |-> amount_sat, script_pubkey |-> recipient_script] >>

\* Mutant of build_p2wpkh_transaction: the UTXOs are selected before the
\* addresses are parsed.
build_p2wpkh_transaction_SelectsFirst(utxos, recipient, amount_sat, change_address, fee_rate, network) ==
    LET net            == to_bitcoin_network(network)
        recipient_addr == BtcParseAddress(recipient, net, "recipient")
        change_addr    == BtcParseAddress(change_address, net, "change")
        selection      == select_utxos(utxos, amount_sat, fee_rate)
    IN  IF selection.status = "Err" THEN selection
        ELSE IF recipient_addr.status = "Err" THEN recipient_addr
        ELSE IF change_addr.status = "Err" THEN change_addr
        ELSE IF FirstBadTxid(selection.selected, 1) # 0
        THEN [status |-> "Err", kind |-> "TransactionBuildError", msg |-> "invalid txid"]
        ELSE [status |-> "Ok",
              tx |-> [version |-> 2, lock_time |-> 0,
                      input |-> BtcInputs(selection.selected),
                      output |-> BtcOutputs(selection.total_sat, Len(selection.selected),
                                            amount_sat, fee_rate,
                                            recipient_addr.script_pubkey,
                                            change_addr.script_pubkey)],
              prevouts |-> BtcPrevouts(selection.selected)]

build_p2wpkh_transaction(utxos, recipient, amount_sat, change_address, fee_rate, network) ==
    LET net            == to_bitcoin_network(network)
        recipient_addr == BtcParseAddress(recipient, net, "recipient")
        change_addr    == BtcParseAddress(change_address, net, "change")
        selection      == select_utxos(utxos, amount_sat, fee_rate)
    IN  IF recipient_addr.status = "Err" THEN recipient_addr
        ELSE IF change_addr.status = "Err" THEN change_addr
        ELSE IF selection.status = "Err" THEN selection
        ELSE IF FirstBadTxid(selection.selected, 1) # 0
        THEN [status |-> "Err", kind |-> "TransactionBuildError", msg |-> "invalid txid"]
        ELSE [status |-> "Ok",
              tx |-> [version |-> 2, lock_time |-> 0,
                      input |-> BtcInputs(selection.selected),
                      output |-> BtcOutputs(selection.total_sat, Len(selection.selected),
                                            amount_sat, fee_rate,
                                            recipient_addr.script_pubkey,
                                            change_addr.script_pubkey)],
              prevouts |-> BtcPrevouts(selection.selected)]

(***************************************************************************)
(* chain-zec: build_transparent_transaction                                *)
(***************************************************************************)
ZEC_DUST_THRESHOLD == 546
TX_OVERHEAD_BYTES == 46
INPUT_BYTES == 148
OUTPUT_BYTES == 34
T_ADDR_VERSION_MAINNET == 7352
T_ADDR_VERSION_TESTNET == 7461

zec_estimate_fee(num_inputs, num_outputs, fee_rate) ==
    LET size == AddU64(AddU64(TX_OVERHEAD_BYTES, MulU64(num_inputs, INPUT_BYTES)),
                       MulU64(num_outputs, OUTPUT_BYTES))
    IN  MulU64(size, fee_rate)

\* A t-address string is modelled by its Base58 decoding: whether it decodes,
\* the decoded length, whether the 4-byte checksum matches, the 2-byte
\* version prefix and the 20-byte hash (an identifier).
address_to_pubkey_hash(address) ==
    IF ~address.base58_ok
    THEN [status |-> "Err", kind |-> "InvalidAddress", msg |-> "invalid base58"]
    ELSE IF address.len # 26
    THEN [status |-> "Err", kind |-> "InvalidAddress", msg |-> "invalid address length"]
    ELSE IF ~address.checksum_ok
    THEN [status |-> "Err", kind |-> "InvalidAddress", msg |-> "invalid checksum"]
    ELSE [status |-> "Ok", hash |-> address.hash]

t_addr_version(network) ==
    IF network = "Mainnet" THEN T_ADDR_VERSION_MAINNET ELSE T_ADDR_VERSION_TESTNET

\* chain-zec validate_address: the same decoding checks, then whether the
\* version prefix is the network's P2PKH prefix.
zec_validate_address(address, network) ==
    IF ~address.base58_ok
    THEN [status |-> "Err", kind |-> "InvalidAddress", msg |-> "invalid base58"]
    ELSE IF address.len # 26
    THEN [status |-> "Err", kind |-> "InvalidAddress", msg |-> "expected 26 bytes"]
    ELSE IF ~address.checksum_ok
    THEN [status |-> "Err", kind |-> "InvalidAddress", msg |-> "invalid checksum"]
    ELSE [status |-> "Ok", valid |-> address.version = t_addr_version(network)]

p2pkh_script(pubkey_hash) == <<118, 169, 20, pubkey_hash, 136, 172>>

ZecSorted(utxos) ==
    LET keys  == [i \in 1..Len(utxos) |-> utxos[i].amount_zatoshi]
        order == SortOrderDesc(Len(utxos), keys)
    IN  [i \in 1..Len(utxos) |-> utxos[order[i]]]

\* The selection loop of build_transparent_transaction (it breaks, it does
\* not return): number selected and running total when the loop ends.
RECURSIVE ZecSelectLoop(_, _, _, _, _)
ZecSelectLoop(sorted, i, total, amount_zat, fee_rate) ==
    IF i > Len(sorted)
    THEN [n |-> Len(sorted), total_in |-> total]
    ELSE LET t   == AddU64(total, sorted[i].amount_zatoshi)
             fee == zec_estimate_fee(i, 2, fee_rate)
         IN  IF t >= AddU64(amount_zat, fee)
             THEN [n |-> i, total_in |-> t]
             ELSE ZecSelectLoop(sorted, i + 1, t, amount_zat, fee_rate)

ZecInputs(selected) ==
    [i \in 1..Len(selected) |->
        [prev_txid |-> selected[i].txid, prev_vout |-> selected[i].vout,
         script_pubkey |-> selected[i].script_pubkey,
         amount |-> selected[i].amount_zatoshi, sequence |-> "FFFFFFFE"]]

\* Mutant of ZecOutputs: the change is the whole remainder, nothing is left
\* for the fee.
ZecOutputs_NoFee(total_in, n, amount_zat, fee_rate, recipient_hash, change_hash) ==
    LET change_zat == SaturatingSub(total_in, amount_zat)
    IN  IF change_zat > ZEC_DUST_THRESHOLD
        THEN << [amount |-> amount_zat, script_pubkey |-> p2pkh_script(recipient_hash)],
                [amount |-> change_zat, script_pubkey |-> p2pkh_script(change_hash)] >>
        ELSE << [amount |-> amount_zat, script_pubkey |-> p2pkh_script(recipient_hash)] >>

ZecOutputs(total_in, n, amount_zat, fee_rate, recipient_hash, change_hash) ==
    LET fee_2out   == zec_estimate_fee(n, 2, fee_rate)
        change_zat == SaturatingSub(total_in, AddU64(amount_zat, fee_2out))
    IN  IF change_zat > ZEC_DUST_THRESHOLD
        THEN << [amount |-> amount_zat, script_pubkey |-> p2pkh_script(recipient_hash)],
                [amount |-> change_zat, script_pubkey |-> p2pkh_script(change_hash)] >>
        ELSE << [amount |-> amount_zat, script_pubkey |-> p2pkh_script(recipient_hash)] >>

build_transparent_transaction(utxos, recipient, amount_zat, change_address, fee_rate, network, expiry_height) ==
    LET recipient_hash == address_to_pubkey_hash(recipient)
        change_hash    == address_to_pubkey_hash(change_address)
        sorted         == ZecSorted(utxos)
        r              == ZecSelectLoop(sorted, 1, 0, amount_zat, fee_rate)
        selected       == SubSeq(sorted, 1, r.n)
        fee_1out       == zec_estimate_fee(r.n, 1, fee_rate)
    IN  IF recipient_hash.status = "Err" THEN recipient_hash
        ELSE IF change_hash.status = "Err" THEN change_hash
        ELSE IF r.total_in < AddU64(amount_zat, fee_1out)
        THEN [status |-> "Err", kind |-> "InsufficientFunds",
              needed |-> AddU64(amount_zat, fee_1out), available |-> r.total_in]
        ELSE IF FirstBadTxid(selected, 1) # 0
        THEN [status |-> "Err", kind |-> "TransactionBuildError", msg |-> "invalid txid"]
        ELSE [status |-> "Ok",
              tx |-> [version |-> "80000005", version_group_id |-> "26A7270A",
                      consensus_branch_id |-> "C2D6D0B4", lock_time |-> 0,
                      expiry_height |-> expiry_height,
                      inputs |-> ZecInputs(selected),
                      outputs |-> ZecOutputs(r.total_in, r.n, amount_zat, fee_rate,
                                             recipient_hash.hash, change_hash.hash)]]

(***************************************************************************)
(* chain-sol: compile_transaction                                          *)
(* A 32-byte public key is represented by a natural number; the compiler   *)
(* only compares keys for equality.  Indices are 0-based as in the source. *)
(***************************************************************************)
U8_RANGE == 256

AsU8(n) == n % U8_RANGE

\* Iterator::position: 0-based index of the first element equal to pubkey,
\* or -1 for None.
position(keys, pubkey) ==
    LET hits == {i \in 1..Len(keys) : keys[i] = pubkey}
    IN  IF hits = {} THEN -1
        ELSE (CHOOSE i \in hits : \A j \in hits : i <= j) - 1

EntryKeys(entries) == [i \in 1..Len(entries) |-> entries[i].pubkey]

\* The references upserted by the walk, in order: the fee payer as a writable
\* signer, then for each instruction its account metas followed by its
\* program id as a read-only non-signer.
RECURSIVE InstructionRefs(_, _)
InstructionRefs(instructions, i) ==
    IF i > Len(instructions) THEN <<>>
    ELSE instructions[i].accounts
         \o <<[pubkey |-> instructions[i].program_id, is_signer |-> FALSE,
               is_writable |-> FALSE]>>
         \o InstructionRefs(instructions, i + 1)

References(instructions, fee_payer) ==
    <<[pubkey |-> fee_payer, is_signer |-> TRUE, is_writable |-> TRUE]>>
        \o InstructionRefs(instructions, 1)

\* upsert pushes a new entry only when no earlier reference has the key.
PushesEntry_Always(refs, i) == TRUE

PushesEntry(refs, i) ==
    \A j \in 1..(i - 1) : refs[j].pubkey # refs[i].pubkey

\* upsert ORs the flags of every later reference into the entry.
MergedEntry_LastReference(refs, pubkey) ==
    LET occ  == {j \in 1..Len(refs) : refs[j].pubkey = pubkey}
        last == CHOOSE j \in occ : \A k \in occ : k <= j
    IN  refs[last]

MergedEntry(refs, pubkey) ==
    [pubkey      |-> pubkey,
     is_signer   |-> \E j \in 1..Len(refs) :
                         refs[j].pubkey = pubkey /\ refs[j].is_signer,
     is_writable |-> \E j \in 1..Len(refs) :
                         refs[j].pubkey = pubkey /\ refs[j].is_writable]

\* The entries vector after every reference has been upserted: one entry
\* per pushed key, in push order.
upsert(refs) ==
    LET pushed == SelectSeq([i \in 1..Len(refs) |-> i],
                            LAMBDA i : PushesEntry(refs, i))
    IN  [k \in 1..Len(pushed) |-> MergedEntry(refs, refs[pushed[k]].pubkey)]

rank(e) ==
    CASE e.is_signer /\ e.is_writable       -> 0
      [] e.is_signer /\ ~e.is_writable      -> 1
      [] ~e.is_signer /\ e.is_writable      -> 2
      [] ~e.is_signer /\ ~e.is_writable     -> 3

OfRank(entries, r) == SelectSeq(entries, LAMBDA e : rank(e) = r)

\* sort_by is stable: entries of equal rank keep their insertion order.
SortByRank_InsertionOrder(entries) == entries

SortByRank(entries) ==
    OfRank(entries, 0) \o OfRank(entries, 1) \o OfRank(entries, 2)
        \o OfRank(entries, 3)

FeePayerFirst(entries, fee_payer) ==
    IF entries[1].pubkey # fee_payer
    THEN LET pos == position(EntryKeys(entries), fee_payer) + 1
         IN  [entries EXCEPT ![1] = entries[pos], ![pos] = entries[1]]
    ELSE entries

CompileInstruction(ix, account_keys) ==
    [program_id_index |-> AsU8(position(account_keys, ix.program_id)),
     account_indices  |->
         [j \in 1..Len(ix.accounts) |->
             AsU8(position(account_keys, ix.accounts[j].pubkey))],
     data |-> ix.data]

MissingKey(instructions, account_keys) ==
    \E i \in 1..Len(instructions) :
        \/ position(account_keys, instructions[i].program_id) < 0
        \/ \E j \in 1..Len(instructions[i].accounts) :
               position(account_keys, instructions[i].accounts[j].pubkey) < 0

compile_transaction(instructions, fee_payer, recent_blockhash) ==
    LET entries == FeePayerFirst(
                       SortByRank(upsert(References(instructions, fee_payer))),
                       fee_payer)
        account_keys == EntryKeys(entries)
    IN  IF MissingKey(instructions, account_keys)
        THEN [status |-> "Err", kind |-> "TransactionBuildError"]
        ELSE [status |-> "Ok",
              account_keys |-> account_keys,
              num_required_signatures |->
                  AsU8(Len(SelectSeq(entries, LAMBDA e : e.is_signer))),
              num_readonly_signed |->
                  AsU8(Len(SelectSeq(entries,
                      LAMBDA e : e.is_signer /\ ~e.is_writable))),
              num_readonly_unsigned |->
                  AsU8(Len(SelectSeq(entries,
                      LAMBDA e : ~e.is_signer /\ ~e.is_writable))),
              recent_blockhash |-> recent_blockhash,
              compiled_instructions |->
                  [i \in 1..Len(instructions) |->
                      CompileInstruction(instructions[i], account_keys)]]

(***************************************************************************)
(* chain-sol: compact-u16 and sign_sol_raw_transaction                     *)
(* Transactions are byte sequences.  SliceFrom(b, k) is the Rust slice     *)
(* b[k..] and Slice(b, lo, hi) is b[lo..hi] (0-based, hi exclusive).       *)
(***************************************************************************)
SIGNATURE_BYTES == 64
PUBKEY_BYTES == 32
U16_MAX == 65535

Slice(b, lo, hi) == SubSeq(b, lo + 1, hi)
SliceFrom(b, k) == SubSeq(b, k + 1, Len(b))

Bytes(n, b) == [i \in 1..n |-> b]

RECURSIVE Concat(_)
Concat(seqs) == IF seqs = <<>> THEN <<>> ELSE Head(seqs) \o Concat(Tail(seqs))

RECURSIVE encode_compact_u16(_)
encode_compact_u16(val) ==
    IF val \div 128 > 0
    THEN <<(val % 128) + 128>> \o encode_compact_u16(val \div 128)
    ELSE <<val % 128>>

SerializationError == [status |-> "Err", kind |-> "SerializationError"]

\* Mutant of DecodeCompactLoop: the loop gives up after two bytes.
RECURSIVE DecodeCompactLoop_StopsAtTwo(_, _, _, _)
DecodeCompactLoop_StopsAtTwo(data, value, weight, consumed) ==
    IF consumed >= Len(data) THEN SerializationError
    ELSE LET byte == data[consumed + 1]
             v    == value + (byte % 128) * weight
         IN  IF byte < 128 \/ consumed + 1 >= 2
             THEN [status |-> "Ok", value |-> v, consumed |-> consumed + 1]
             ELSE DecodeCompactLoop_StopsAtTwo(data, v, weight * 128, consumed + 1)

\* The decoding loop; weight is 2^shift.
RECURSIVE DecodeCompactLoop(_, _, _, _)
DecodeCompactLoop(data, value, weight, consumed) ==
    IF consumed >= Len(data) THEN SerializationError
    ELSE LET byte == data[consumed + 1]
             v    == value + (byte % 128) * weight
         IN  IF byte < 128 \/ consumed + 1 >= 3
             THEN [status |-> "Ok", value |-> v, consumed |-> consumed + 1]
             ELSE DecodeCompactLoop(data, v, weight * 128, consumed + 1)

decode_compact_u16(data) ==
    IF data = <<>> THEN SerializationError
    ELSE LET r == DecodeCompactLoop(data, 0, 1, 0)
         IN  IF r.status = "Ok" /\ r.value > U16_MAX
             THEN SerializationError
             ELSE r

\* Ed25519 as the code uses it: the public key is a function of the private
\* key, a signature is 64 bytes that depend on the private key and on the
\* message.
verifying_key(private_key) ==
    [i \in 1..PUBKEY_BYTES |-> (private_key[i] + 100) % U8_RANGE]

ed25519_sign(private_key, message) ==
    [i \in 1..SIGNATURE_BYTES |->
        IF message = <<>> THEN (private_key[1] + i) % U8_RANGE
        ELSE (private_key[((i - 1) % Len(private_key)) + 1]
                 + message[((i - 1) % Len(message)) + 1] + i) % U8_RANGE]

\* The search of lines 463-471 without the restriction to the signers.
FindSigner_AnyAccount(message_bytes, accounts_start, num_required_sigs, num_accounts, our_pubkey) ==
    LET hits == {i \in 0..(num_accounts - 1) :
                    Slice(message_bytes, accounts_start + i * PUBKEY_BYTES,
                          accounts_start + i * PUBKEY_BYTES + PUBKEY_BYTES)
                        = our_pubkey}
    IN  IF hits = {} THEN -1 ELSE CHOOSE i \in hits : \A j \in hits : i <= j

\* Index of the first of the first min(num_required_sigs, num_accounts)
\* account keys that equals our_pubkey, -1 for None.
FindSigner(message_bytes, accounts_start, num_required_sigs, num_accounts, our_pubkey) ==
    LET limit == IF num_required_sigs < num_accounts
                 THEN num_required_sigs ELSE num_accounts
        hits  == {i \in 0..(limit - 1) :
                    Slice(message_bytes, accounts_start + i * PUBKEY_BYTES,
                          accounts_start + i * PUBKEY_BYTES + PUBKEY_BYTES)
                        = our_pubkey}
    IN  IF hits = {} THEN -1 ELSE CHOOSE i \in hits : \A j \in hits : i <= j

\* Mutant of SpliceSignature: the signature is computed over the whole raw
\* transaction instead of the message.
SpliceSignature_SignsWholeTx(private_key, raw_tx, message_bytes, sigs_start, signer_idx) ==
    LET signature  == ed25519_sign(private_key, raw_tx)
        sig_offset == sigs_start + signer_idx * SIGNATURE_BYTES
    IN  IF sig_offset + SIGNATURE_BYTES > Len(raw_tx)
        THEN [status |-> "Panic"]
        ELSE [status |-> "Ok",
              signed_tx |->
                  [i \in 1..Len(raw_tx) |->
                      IF i > sig_offset /\ i <= sig_offset + SIGNATURE_BYTES
                      THEN signature[i - sig_offset]
                      ELSE raw_tx[i]]]

\* Lines 479-487: sign the message and overwrite the slot in a copy of
\* raw_tx.  A slice range past the end of the copy panics.
SpliceSignature(private_key, raw_tx, message_bytes, sigs_start, signer_idx) ==
    LET signature  == ed25519_sign(private_key, message_bytes)
        sig_offset == sigs_start + signer_idx * SIGNATURE_BYTES
    IN  IF sig_offset + SIGNATURE_BYTES > Len(raw_tx)
        THEN [status |-> "Panic"]
        ELSE [status |-> "Ok",
              signed_tx |->
                  [i \in 1..Len(raw_tx) |->
                      IF i > sig_offset /\ i <= sig_offset + SIGNATURE_BYTES
                      THEN signature[i - sig_offset]
                      ELSE raw_tx[i]]]

\* Lines 436-487: everything after the signature region has been located.
SignMessagePart(private_key, raw_tx, sigs_start, sigs_end) ==
    LET message_bytes == SliceFrom(raw_tx, sigs_end)
    IN  IF Len(message_bytes) < 4 THEN SerializationError
        ELSE
        LET num_required_sigs == message_bytes[1]
            d == decode_compact_u16(SliceFrom(message_bytes, 3))
        IN  IF d.status = "Err" THEN d
            ELSE
            LET accounts_start == 3 + d.consumed
                accounts_end   == accounts_start + d.value * PUBKEY_BYTES
                signer_idx     == FindSigner(message_bytes, accounts_start,
                                             num_required_sigs, d.value,
                                             verifying_key(private_key))
            IN  IF accounts_end > Len(message_bytes) THEN SerializationError
                ELSE IF signer_idx < 0
                THEN [status |-> "Err", kind |-> "SigningError"]
                ELSE SpliceSignature(private_key, raw_tx, message_bytes,
                                     sigs_start, signer_idx)

sign_sol_raw_transaction(private_key, raw_tx) ==
    LET d == decode_compact_u16(raw_tx)
    IN  IF d.status = "Err" THEN d
        ELSE IF d.value = 0
        THEN [status |-> "Err", kind |-> "TransactionBuildError"]
        ELSE IF d.consumed + d.value * SIGNATURE_BYTES > Len(raw_tx)
        THEN SerializationError
        ELSE SignMessagePart(private_key, raw_tx, d.consumed,
                             d.consumed + d.value * SIGNATURE_BYTES)

(***************************************************************************)
(* chain-sol: serialize_message and sign_transaction                       *)
(***************************************************************************)
\* `len() as u16`
AsU16(n) == n % (U16_MAX + 1)

\* to_le_bytes of an unsigned integer of `width` bytes.
RECURSIVE LeBytes(_, _)
LeBytes(n, width) ==
    IF width = 0 THEN <<>> ELSE <<n % U8_RANGE>> \o LeBytes(n \div U8_RANGE, width - 1)

\* for key in &tx.account_keys { buf.extend_from_slice(key) }: the keys are
\* 32-byte arrays, laid end to end.
ExtendWithKeys(account_keys) ==
    [i \in 1..(PUBKEY_BYTES * Len(account_keys)) |->
        account_keys[((i - 1) \div PUBKEY_BYTES) + 1][((i - 1) % PUBKEY_BYTES) + 1]]

\* The body of the instruction loop of serialize_message.
SerializeInstruction(ix) ==
    <<ix.program_id_index>>
        \o encode_compact_u16(AsU16(Len(ix.account_indices))) \o ix.account_indices
        \o encode_compact_u16(AsU16(Len(ix.data))) \o ix.data

\* Mutant of serialize_message: the blockhash is written before the
\* account keys.
serialize_message_BlockhashFirst(tx) ==
    [status |-> "Ok",
     bytes |->
        <<tx.num_required_signatures, tx.num_readonly_signed, tx.num_readonly_unsigned>>
            \o tx.recent_blockhash
            \o encode_compact_u16(AsU16(Len(tx.account_keys)))
            \o ExtendWithKeys(tx.account_keys)
            \o encode_compact_u16(AsU16(Len(tx.compiled_instructions)))
            \o Concat([i \in 1..Len(tx.compiled_instructions) |->
                          SerializeInstruction(tx.compiled_instructions[i])])]

serialize_message(tx) ==
    [status |-> "Ok",
     bytes |->
        <<tx.num_required_signatures, tx.num_readonly_signed, tx.num_readonly_unsigned>>
            \o encode_compact_u16(AsU16(Len(tx.account_keys)))
            \o ExtendWithKeys(tx.account_keys)
            \o tx.recent_blockhash
            \o encode_compact_u16(AsU16(Len(tx.compiled_instructions)))
            \o Concat([i \in 1..Len(tx.compiled_instructions) |->
                          SerializeInstruction(tx.compiled_instructions[i])])]

\* Mutant of sign_transaction: the message is written before the signature.
sign_transaction_MessageFirst(tx, private_key) ==
    LET message == serialize_message(tx)
    IN  IF message.status = "Err" THEN message
        ELSE [status |-> "Ok",
              wire |-> encode_compact_u16(1)
                           \o message.bytes
                           \o ed25519_sign(private_key, message.bytes)]

\* chain-sol sign_transaction: one signature slot, then the message.
sign_transaction(tx, private_key) ==
    LET message == serialize_message(tx)
    IN  IF message.status = "Err" THEN message
        ELSE [status |-> "Ok",
              wire |-> encode_compact_u16(1)
                           \o ed25519_sign(private_key, message.bytes)
                           \o message.bytes]

(***************************************************************************)
(* wallet-core: key derivation and argument parsing                        *)
(* An entry point owns its seed buffer; each operator below returns the    *)
(* result of the call together with the contents of that buffer on return. *)
(***************************************************************************)
SEED_BYTES == 64

\* A u32 account or address index is its top bit (the hardened flag,
\* 0x80000000) and its low 31 bits.
U32(high_bit, low) == [high_bit |-> high_bit, low |-> low]

Ok == [status |-> "Ok"]
WalletErr(kind, cause) == [status |-> "Err", kind |-> kind, cause |-> cause]

\* Vec::zeroize overwrites every byte of the buffer with zero.
zeroize(seed_bytes) == [i \in 1..Len(seed_bytes) |-> 0]

Return(result, seed_bytes) == [ret |-> result, seed |-> seed_bytes]

\* The first error of a sequence of fallible steps, in program order.
FirstError(steps) ==
    LET failed == {i \in 1..Len(steps) : steps[i].status = "Err"}
    IN  IF failed = {} THEN Ok
        ELSE steps[CHOOSE i \in failed : \A j \in failed : i <= j]

\* BIP-32: the path parser rejects an account or index with the hardened bit
\* already set, and the master key needs a seed of 16, 32 or 64 bytes.
derive_secp256k1_key(seed_bytes, chain, account, index) ==
    IF account.high_bit \/ index.high_bit
          \/ Len(seed_bytes) \notin {16, 32, 64}
    THEN WalletErr("DerivationFailed", "bip32")
    ELSE [status |-> "Ok",
          private_key |-> [i \in 1..PUBKEY_BYTES |->
                              (seed_bytes[i] + account.low + index.low + 1) % U8_RANGE]]

\* derivation_path_for_chain for Solana, "m/44'/501'/{account}'/0'": the
\* components as numbers, each followed by the hardened marker.  The account
\* is printed as the u32 it is.
sol_derivation_path(account) ==
    <<[number |-> U32(FALSE, 44), hardened |-> TRUE],
      [number |-> U32(FALSE, 501), hardened |-> TRUE],
      [number |-> account, hardened |-> TRUE],
      [number |-> U32(FALSE, 0), hardened |-> TRUE]>>

\* parse_derivation_path drops the marker and parses each number as a u32
\* (every u32 parses); the loop of derive_ed25519_key feeds
\* child_index | 0x80000000 to the HMAC.
ed25519_child_indices(path) ==
    [i \in 1..Len(path) |-> U32(TRUE, path[i].number.low)]

\* SLIP-0010: HMAC chaining over the path components, each with the hardened
\* bit forced (child_index | 0x80000000); no step can fail.
derive_ed25519_key(seed_bytes, account) ==
    LET path_str == sol_derivation_path(account)
        indices  == ed25519_child_indices(path_str)
        key == [i \in 1..PUBKEY_BYTES |->
                   (seed_bytes[((i - 1) % Len(seed_bytes)) + 1] + indices[3].low + 1)
                       % U8_RANGE]
    IN  [status |-> "Ok", private_key |-> key, public_key |-> verifying_key(key),
         derivation_path |-> path_str]

\* u128::from_str_radix(s.trim_start_matches("0x"), 16)
from_str_radix(s, what) ==
    IF s.hex_ok /\ s.digits >= 1 /\ s.digits <= 32 THEN Ok
    ELSE WalletErr("TransactionFailed", what)

\* chain-eth parse_to_bytes / parse_address: 0x prefix, 40 hex characters.
parse_to_bytes(address) ==
    IF ~address.prefix_0x \/ address.hex_len # 40 \/ ~address.hex_ok
    THEN WalletErr("TransactionFailed", "ETH: InvalidAddress")
    ELSE Ok

\* hex::decode of the amount, left-padded to an even number of digits, and
\* the uint256 length check.
DecodeAmount(amount_hex) ==
    IF ~amount_hex.hex_ok
    THEN WalletErr("TransactionFailed", "Invalid amount hex")
    ELSE IF (amount_hex.digits + (amount_hex.digits % 2)) \div 2 > 32
    THEN WalletErr("TransactionFailed", "Amount exceeds uint256")
    ELSE Ok

\* chain-sol address_to_bytes: Base58 that decodes to exactly 32 bytes.
address_to_bytes(address) ==
    IF ~address.base58_ok \/ Len(address.bytes) # PUBKEY_BYTES
    THEN WalletErr("TransactionFailed", "SOL: InvalidAddress")
    ELSE [status |-> "Ok", bytes |-> address.bytes]

\* recent_blockhash.as_slice().try_into(): exactly 32 bytes.
BlockhashArray(recent_blockhash) ==
    IF Len(recent_blockhash) # 32
    THEN WalletErr("TransactionFailed", "Invalid blockhash length")
    ELSE Ok

FromChainError(r, chain) ==
    IF r.status = "Err" THEN WalletErr("TransactionFailed", chain) ELSE Ok

SYSTEM_TRANSFER_IX_INDEX == 2
SYSTEM_PROGRAM_ID == [i \in 1..PUBKEY_BYTES |-> 0]

TOKEN_PROGRAM_ID ==
    <<6, 221, 246, 225, 215, 101, 161, 147, 217, 203, 225, 70, 206, 235,
      121, 172, 28, 180, 133, 237, 95, 91, 55, 145, 58, 140, 245, 133,
      126, 255, 0, 169>>

build_sol_transfer(from_pubkey, to_pubkey, lamports, recent_blockhash) ==
    IF lamports = 0
    THEN [status |-> "Err", kind |-> "TransactionBuildError"]
    ELSE compile_transaction(
             <<[program_id |-> SYSTEM_PROGRAM_ID,
                accounts |-> <<[pubkey |-> from_pubkey, is_signer |-> TRUE,
                                is_writable |-> TRUE],
                               [pubkey |-> to_pubkey, is_signer |-> FALSE,
                                is_writable |-> TRUE]>>,
                data |-> LeBytes(SYSTEM_TRANSFER_IX_INDEX, 4) \o LeBytes(lamports, 8)]>>,
             from_pubkey, recent_blockhash)

\* The associated token account: a 32-byte function of wallet and mint.
derive_associated_token_address(wallet, mint) ==
    [i \in 1..PUBKEY_BYTES |-> (wallet[i] + 2 * mint[i] + 50) % U8_RANGE]

build_spl_transfer(from_token_account, to_token_account, owner, amount) ==
    IF amount = 0
    THEN [status |-> "Err", kind |-> "TransactionBuildError"]
    ELSE [status |-> "Ok",
          instruction |->
              [program_id |-> TOKEN_PROGRAM_ID,
               accounts |-> <<[pubkey |-> from_token_account,
                               is_signer |-> FALSE, is_writable |-> TRUE],
                              [pubkey |-> to_token_account,
                               is_signer |-> FALSE, is_writable |-> TRUE],
                              [pubkey |-> owner, is_signer |-> TRUE,
                               is_writable |-> FALSE]>>,
               data |-> <<3, amount>>]]

(***************************************************************************)
(* wallet-core: the signing entry points.  In each of them every `?` and   *)
(* early return leaves before the single seed.zeroize() call, which sits   *)
(* on the line before the final Ok(..).                                    *)
(***************************************************************************)
sign_eth_message(seed_bytes, account, index, message) ==
    LET e == FirstError(<<derive_secp256k1_key(seed_bytes, "Ethereum", account, index)>>)
    IN  IF e.status = "Err" THEN Return(e, seed_bytes)
        ELSE Return(Ok, zeroize(seed_bytes))

sign_eth_transaction(seed_bytes, account, index, to_address, value_wei_hex, max_priority_fee_hex, max_fee_hex) ==
    LET e == FirstError(<<
                 derive_secp256k1_key(seed_bytes, "Ethereum", account, index),
                 from_str_radix(value_wei_hex, "Invalid value"),
                 from_str_radix(max_priority_fee_hex, "Invalid priority fee"),
                 from_str_radix(max_fee_hex, "Invalid max fee"),
                 parse_to_bytes(to_address)>>)
    IN  IF e.status = "Err" THEN Return(e, seed_bytes)
        ELSE Return(Ok, zeroize(seed_bytes))

sign_sol_transfer(seed_bytes, account, to_address, lamports, recent_blockhash) ==
    LET key == derive_ed25519_key(seed_bytes, account)
        to_bytes == address_to_bytes(to_address)
        e == FirstError(<<key, to_bytes, BlockhashArray(recent_blockhash)>>)
    IN  IF e.status = "Err" THEN Return(e, seed_bytes)
        ELSE
        LET tx == build_sol_transfer(key.public_key, to_bytes.bytes, lamports,
                                     recent_blockhash)
        IN  IF tx.status = "Err"
            THEN Return(FromChainError(tx, "SOL"), seed_bytes)
            ELSE Return(Ok, zeroize(seed_bytes))

sign_eth_raw_hash(seed_bytes, account, index, hash) ==
    IF Len(hash) # 32
    THEN Return(WalletErr("SigningFailed", "Hash must be exactly 32 bytes"),
                seed_bytes)
    ELSE
    LET e == FirstError(<<derive_secp256k1_key(seed_bytes, "Ethereum", account, index)>>)
    IN  IF e.status = "Err" THEN Return(e, seed_bytes)
        ELSE Return(Ok, zeroize(seed_bytes))

sign_erc20_transfer(seed_bytes, account, index, token_contract, to_address, amount_hex, max_priority_fee_hex, max_fee_hex) ==
    LET e == FirstError(<<
                 derive_secp256k1_key(seed_bytes, "Ethereum", account, index),
                 DecodeAmount(amount_hex),
                 from_str_radix(max_priority_fee_hex, "Invalid priority fee"),
                 from_str_radix(max_fee_hex, "Invalid max fee"),
                 parse_to_bytes(token_contract),
                 parse_to_bytes(to_address)>>)
    IN  IF e.status = "Err" THEN Return(e, seed_bytes)
        ELSE Return(Ok, zeroize(seed_bytes))

sign_spl_transfer(seed_bytes, account, to_address, mint_address, amount, recent_blockhash) ==
    LET key == derive_ed25519_key(seed_bytes, account)
        to_bytes == address_to_bytes(to_address)
        mint_bytes == address_to_bytes(mint_address)
        e == FirstError(<<key, to_bytes, mint_bytes,
                          BlockhashArray(recent_blockhash)>>)
    IN  IF e.status = "Err" THEN Return(e, seed_bytes)
        ELSE
        LET sender_ata == derive_associated_token_address(key.public_key,
                                                          mint_bytes.bytes)
            recipient_ata == derive_associated_token_address(to_bytes.bytes,
                                                             mint_bytes.bytes)
            spl_ix == build_spl_transfer(sender_ata, recipient_ata,
                                         key.public_key, amount)
        IN  IF spl_ix.status = "Err"
            THEN Return(FromChainError(spl_ix, "SOL"), seed_bytes)
            ELSE
            LET tx == compile_transaction(<<spl_ix.instruction>>,
                                          key.public_key, recent_blockhash)
            IN  IF tx.status = "Err"
                THEN Return(FromChainError(tx, "SOL"), seed_bytes)
                ELSE Return(Ok, zeroize(seed_bytes))

sign_sol_message(seed_bytes, account, message) ==
    LET key == derive_ed25519_key(seed_bytes, account)
    IN  IF key.status = "Err" THEN Return(key, seed_bytes)
        ELSE Return([status |-> "Ok",
                     signature |-> ed25519_sign(key.private_key, message)],
                    zeroize(seed_bytes))

\* A panic of the chain-sol signer unwinds through this function; the seed
\* vector is dropped without being zeroed.
wallet_sign_sol_raw_transaction(seed_bytes, account, raw_tx) ==
    LET key == derive_ed25519_key(seed_bytes, account)
    IN  IF key.status = "Err" THEN Return(key, seed_bytes)
        ELSE
        LET signed == sign_sol_raw_transaction(key.private_key, raw_tx)
        IN  IF signed.status = "Panic" THEN Return(signed, seed_bytes)
            ELSE IF signed.status = "Err"
            THEN Return(FromChainError(signed, "SOL"), seed_bytes)
            ELSE Return(signed, zeroize(seed_bytes))

sign_zec_transaction(seed_bytes, account, index, utxos, recipient_address, amount_zatoshi, change_address, fee_rate_zat_byte, expiry_height, is_testnet) ==
    LET chain   == IF is_testnet THEN "ZcashTestnet" ELSE "Zcash"
        network == IF is_testnet THEN "Testnet" ELSE "Mainnet"
        key     == derive_secp256k1_key(seed_bytes, chain, account, index)
    IN  IF key.status = "Err" THEN Return(key, seed_bytes)
        ELSE
        LET unsigned_tx == build_transparent_transaction(
                               utxos, recipient_address, amount_zatoshi,
                               change_address, fee_rate_zat_byte, network,
                               expiry_height)
        IN  IF unsigned_tx.status = "Err"
            THEN Return(FromChainError(unsigned_tx, "ZEC"), seed_bytes)
            ELSE Return(Ok, zeroize(seed_bytes))

sign_btc_transaction(seed_bytes, account, index, utxos, recipient_address, amount_sat, change_address, fee_rate_sat_vbyte, is_testnet) ==
    LET chain   == IF is_testnet THEN "BitcoinTestnet" ELSE "Bitcoin"
        network == IF is_testnet THEN "Testnet" ELSE "Mainnet"
        key     == derive_secp256k1_key(seed_bytes, chain, account, index)
    IN  IF key.status = "Err" THEN Return(key, seed_bytes)
        ELSE
        LET unsigned_tx == build_p2wpkh_transaction(
                               utxos, recipient_address, amount_sat,
                               change_address, fee_rate_sat_vbyte, network)
        IN  IF unsigned_tx.status = "Err"
            THEN Return(FromChainError(unsigned_tx, "BTC"), seed_bytes)
            ELSE Return(Ok, zeroize(seed_bytes))

(***************************************************************************)
(* chain-sol: program derived addresses                                    *)
(***************************************************************************)
ASSOCIATED_TOKEN_PROGRAM_ID ==
    <<140, 151, 37, 143, 78, 36, 137, 241, 187, 61, 16, 41, 20, 142,
      13, 131, 11, 90, 19, 153, 218, 255, 16, 132, 4, 142, 123, 216,
      219, 233, 248, 89>>

\* b"ProgramDerivedAddress"
PDA_MARKER ==
    <<80, 114, 111, 103, 114, 97, 109, 68, 101, 114, 105, 118, 101, 100,
      65, 100, 100, 114, 101, 115, 115>>

MAX_BUMP == 255

\* SHA-256 is a function of the bytes fed to the hasher; the digest is
\* represented by those bytes.
Sha256(hasher) == [sha256 |-> hasher]

\* for seed in seeds { hasher.update(seed) }
RECURSIVE UpdateAll(_, _)
UpdateAll(hasher, seeds) ==
    IF seeds = <<>> THEN hasher ELSE UpdateAll(hasher \o Head(seeds), Tail(seeds))

\* Whether 32 bytes decompress to an Ed25519 point is a fact about the
\* digest that the code only observes: curve_points is the set of digests
\* that decompress.
is_on_curve(bytes, curve_points) == bytes \in curve_points

try_create_program_address(seeds, bump_seed, program_id, curve_points) ==
    LET hash == Sha256(UpdateAll(<<>>, seeds) \o bump_seed \o program_id \o PDA_MARKER)
    IN  IF is_on_curve(hash, curve_points)
        THEN [some |-> FALSE]
        ELSE [some |-> TRUE, address |-> hash]

\* Mutant of FirstInRev: the search runs upwards from bump 0.
FirstInRev_Ascending(bumps) == CHOOSE b \in bumps : \A c \in bumps : b <= c

\* The first element of (0u8..=255).rev() that lies in bumps.
FirstInRev(bumps) == CHOOSE b \in bumps : \A c \in bumps : c <= b

\* The loop returns at the first bump, counting down from 255, for which
\* try_create_program_address returns Some; it falls through to the error
\* when there is none.
find_program_address(seeds, program_id, curve_points) ==
    LET Try(bump) == try_create_program_address(seeds, <<bump>>, program_id, curve_points)
        some      == {bump \in 0..MAX_BUMP : Try(bump).some}
    IN  IF some = {}
        THEN [status |-> "Err", kind |-> "InvalidAddress"]
        ELSE LET bump == FirstInRev(some)
             IN  [status |-> "Ok", address |-> Try(bump).address, bump |-> bump]

(***************************************************************************)
(* chain-eth: RLP, encode_unsigned_tx and sign_transaction                 *)
(* Strings are sequences of one-character strings.                         *)
(***************************************************************************)
HexDigits == <<"0", "1", "2", "3", "4", "5", "6", "7", "8", "9",
               "a", "b", "c", "d", "e", "f">>
UpperHexDigits == <<"0", "1", "2", "3", "4", "5", "6", "7", "8", "9",
                    "A", "B", "C", "D", "E", "F">>

IsHexDigit(c) == \E v \in 1..16 : HexDigits[v] = c \/ UpperHexDigits[v] = c
HexValue(c) == (CHOOSE v \in 1..16 : HexDigits[v] = c \/ UpperHexDigits[v] = c) - 1

\* hex::encode: two lowercase digits per byte.
hex_encode(bytes) ==
    [i \in 1..(2 * Len(bytes)) |->
        IF i % 2 = 1 THEN HexDigits[(bytes[(i + 1) \div 2] \div 16) + 1]
        ELSE HexDigits[(bytes[i \div 2] % 16) + 1]]

\* hex::decode of an even number of hex digits.
hex_decode(digits) ==
    [i \in 1..(Len(digits) \div 2) |->
        16 * HexValue(digits[2 * i - 1]) + HexValue(digits[2 * i])]

EthError(kind) == [status |-> "Err", kind |-> kind]

\* chain-eth parse_to_bytes on the characters of the address.
parse_to_rlp_address(address) ==
    IF Len(address) < 2 \/ SubSeq(address, 1, 2) \notin {<<"0", "x">>, <<"0", "X">>}
    THEN EthError("InvalidAddress")
    ELSE LET hex_str == SubSeq(address, 3, Len(address))
         IN  IF Len(hex_str) # 40 THEN EthError("InvalidAddress")
             ELSE IF \E i \in 1..40 : ~IsHexDigit(hex_str[i])
             THEN EthError("InvalidAddress")
             ELSE [status |-> "Ok", bytes |-> hex_decode(hex_str)]

\* Keccak-256 is a function from byte strings to 32 bytes; this one stands
\* for it.
Keccak256(bytes) ==
    [i \in 1..32 |->
        IF bytes = <<>> THEN (197 + i) % U8_RANGE
        ELSE (bytes[((7 * i) % Len(bytes)) + 1] + bytes[((13 * i + 3) % Len(bytes)) + 1]
                  + bytes[Len(bytes)] + Len(bytes) + i) % U8_RANGE]

\* The order n of the secp256k1 group, big-endian.
SECP256K1_ORDER ==
    <<255, 255, 255, 255, 255, 255, 255, 255, 255, 255, 255, 255, 255, 255, 255, 254,
      186, 174, 220, 230, 175, 72, 160, 59, 191, 210, 94, 140, 208, 54, 65, 65>>

\* Big-endian comparison of two byte strings of the same length.
BeLess(a, b) ==
    \E i \in 1..Len(a) : a[i] < b[i] /\ \A j \in 1..(i - 1) : a[j] = b[j]

\* secp256k1 keys are the scalars 1..n-1: zero and every value from n up are
\* rejected.
IsSecp256k1Scalar(bytes) ==
    /\ \E i \in 1..Len(bytes) : bytes[i] # 0
    /\ BeLess(bytes, SECP256K1_ORDER)

SigningKey_from_bytes(private_key) ==
    IF ~IsSecp256k1Scalar(private_key)
    THEN EthError("InvalidPrivateKey")
    ELSE [status |-> "Ok", key |-> private_key]

\* sign_prehash: r, s and the recovery parity are functions of the key and
\* of the 32-byte digest; r and s are 32-byte big-endian numbers and may
\* begin with zero bytes.
sign_prehash(key, msg_hash) ==
    [r |-> [i \in 1..32 |->
               IF i <= msg_hash[1] % 3 THEN 0
               ELSE ((key[i] + msg_hash[i]) % (U8_RANGE - 1)) + 1],
     s |-> [i \in 1..32 |->
               IF i <= msg_hash[2] % 2 THEN 0
               ELSE ((key[i] + 2 * msg_hash[i] + i) % (U8_RANGE - 1)) + 1],
     is_y_odd |-> msg_hash[3] % 2 = 1]

\* Minimal big-endian bytes of an unsigned integer; zero is the empty string.
RECURSIVE BeBytes(_)
BeBytes(n) == IF n = 0 THEN <<>> ELSE BeBytes(n \div U8_RANGE) \o <<n % U8_RANGE>>

\* The RLP header: one byte up to 55 payload bytes, otherwise the length of
\* the length and the length.
RlpHeader(base, length) ==
    IF length <= 55 THEN <<base + length>>
    ELSE <<base + 55 + Len(BeBytes(length))>> \o BeBytes(length)

\* <[u8] as Encodable>::encode
RlpString(bytes) ==
    IF Len(bytes) = 1 /\ bytes[1] < 128 THEN bytes
    ELSE RlpHeader(128, Len(bytes)) \o bytes

\* Encodable for u8, u64, u128
RlpUint(n) == RlpString(BeBytes(n))

\* Encodable for RlpU256: leading zero bytes are stripped.
RlpU256(bytes) ==
    LET nonzero == {i \in 1..Len(bytes) : bytes[i] # 0}
        start   == IF nonzero = {} THEN Len(bytes) + 1
                   ELSE CHOOSE i \in nonzero : \A j \in nonzero : i <= j
    IN  RlpString(SubSeq(bytes, start, Len(bytes)))

\* #[derive(RlpEncodable)] on a struct, and Encodable for Vec<T>: a list of
\* the encoded fields.
RlpList(items) == RlpHeader(192, Len(Concat(items))) \o Concat(items)

\* The encoded fields of UnsignedTxFields, in declaration order.
UnsignedTxFields(tx, to) ==
    <<RlpUint(tx.chain_id), RlpUint(tx.nonce), RlpUint(tx.max_priority_fee_per_gas),
      RlpUint(tx.max_fee_per_gas), RlpUint(tx.gas_limit), RlpString(to),
      RlpUint(tx.value), RlpString(tx.data), RlpList(<<>>)>>

encode_unsigned_tx(tx) ==
    LET to == parse_to_rlp_address(tx.to)
    IN  IF to.status = "Err" THEN to
        ELSE [status |-> "Ok", payload |-> <<2>> \o RlpList(UnsignedTxFields(tx, to.bytes))]

\* Mutant of SignedTxFields: the two fee fields change places.
SignedTxFields_SwapsFees(tx, to, y_parity, r_bytes, s_bytes) ==
    <<RlpUint(tx.chain_id), RlpUint(tx.nonce), RlpUint(tx.max_fee_per_gas),
      RlpUint(tx.max_priority_fee_per_gas), RlpUint(tx.gas_limit), RlpString(to),
      RlpUint(tx.value), RlpString(tx.data), RlpList(<<>>),
      RlpUint(y_parity), RlpU256(r_bytes), RlpU256(s_bytes)>>

\* The encoded fields of SignedTxFields, in declaration order.
SignedTxFields(tx, to, y_parity, r_bytes, s_bytes) ==
    <<RlpUint(tx.chain_id), RlpUint(tx.nonce), RlpUint(tx.max_priority_fee_per_gas),
      RlpUint(tx.max_fee_per_gas), RlpUint(tx.gas_limit), RlpString(to),
      RlpUint(tx.value), RlpString(tx.data), RlpList(<<>>),
      RlpUint(y_parity), RlpU256(r_bytes), RlpU256(s_bytes)>>

\* chain-eth sign_transaction
eth_sign_transaction(tx, private_key) ==
    LET unsigned_payload == encode_unsigned_tx(tx)
        signing_key      == SigningKey_from_bytes(private_key)
    IN  IF unsigned_payload.status = "Err" THEN unsigned_payload
        ELSE IF signing_key.status = "Err" THEN signing_key
        ELSE
        LET msg_hash  == Keccak256(unsigned_payload.payload)
            signature == sign_prehash(signing_key.key, msg_hash)
            y_parity  == IF signature.is_y_odd THEN 1 ELSE 0
            to        == parse_to_rlp_address(tx.to)
        IN  IF to.status = "Err" THEN to
            ELSE
            LET raw_tx == <<2>> \o RlpList(SignedTxFields(tx, to.bytes, y_parity,
                                                          signature.r, signature.s))
            IN  [status |-> "Ok", raw_tx |-> raw_tx,
                 tx_hash |-> <<"0", "x">> \o hex_encode(Keccak256(raw_tx))]

\* The decimal digits of n as ASCII bytes.
RECURSIVE DecimalBytes(_)
DecimalBytes(n) ==
    IF n < 10 THEN <<48 + n>> ELSE DecimalBytes(n \div 10) \o <<48 + (n % 10)>>

\* "\x19Ethereum Signed Message:\n" followed by the decimal message length.
Eip191Prefix(message) ==
    <<25, 69, 116, 104, 101, 114, 101, 117, 109, 32, 83, 105, 103, 110, 101,
      100, 32, 77, 101, 115, 115, 97, 103, 101, 58, 10>>
        \o DecimalBytes(Len(message))

\* chain-eth sign_message: r, s and v = 27 + parity over the EIP-191 digest.
eth_sign_message(message, private_key) ==
    LET msg_hash    == Keccak256(Eip191Prefix(message) \o message)
        signing_key == SigningKey_from_bytes(private_key)
    IN  IF signing_key.status = "Err" THEN signing_key
        ELSE
        LET signature == sign_prehash(signing_key.key, msg_hash)
        IN  [status |-> "Ok",
             sig |-> signature.r \o signature.s
                         \o <<(IF signature.is_y_odd THEN 1 ELSE 0) + 27>>]

\* The key_bytes array of chain-eth sign_transaction and sign_message when
\* the function returns.  key_bytes.zeroize() is the statement after
\* SigningKey::from_bytes(..)?, so the InvalidPrivateKey return leaves the
\* function before it.
eth_key_bytes(private_key) ==
    LET key_bytes == private_key
    IN  IF SigningKey_from_bytes(key_bytes).status = "Err"
        THEN key_bytes
        ELSE zeroize(key_bytes)

\* The seed array of chain-sol sign_transaction and sign_sol_raw_transaction
\* when the function returns: ed25519 SigningKey::from_bytes cannot fail and
\* seed.zeroize() is the next statement.
sol_seed_copy(private_key) ==
    LET seed_copy == private_key
    IN  zeroize(seed_copy)

(***************************************************************************)
(* chain-eth: ABI encoding                                                 *)
(***************************************************************************)
TRANSFER_SELECTOR == <<169, 5, 156, 187>>

\* Mutant of encode_param: the address is put first and padded on the
\* right.
encode_param_AddressRightPadded(param) ==
    CASE param.kind = "Address" ->
             [i \in 1..32 |-> IF i <= 20 THEN param.bytes[i] ELSE 0]
      [] param.kind = "Uint256" -> param.bytes
      [] param.kind = "Bytes" ->
             LET len == IF Len(param.bytes) < 32 THEN Len(param.bytes) ELSE 32
             IN  [i \in 1..32 |-> IF i <= len THEN param.bytes[i] ELSE 0]

\* One 32-byte word per parameter.
encode_param(param) ==
    CASE param.kind = "Address" ->
             [i \in 1..32 |-> IF i <= 12 THEN 0 ELSE param.bytes[i - 12]]
      [] param.kind = "Uint256" -> param.bytes
      [] param.kind = "Bytes" ->
             LET len == IF Len(param.bytes) < 32 THEN Len(param.bytes) ELSE 32
             IN  [i \in 1..32 |-> IF i <= len THEN param.bytes[i] ELSE 0]

encode_function_call(selector, params) ==
    selector \o Concat([i \in 1..Len(params) |-> encode_param(params[i])])

\* erc20.rs parse_address: the same checks and decoding as parse_to_bytes.
parse_address(address) == parse_to_rlp_address(address)

encode_transfer(to, amount) ==
    LET addr == parse_address(to)
    IN  IF addr.status = "Err" THEN addr
        ELSE [status |-> "Ok",
              data |-> encode_function_call(TRANSFER_SELECTOR,
                           <<[kind |-> "Address", bytes |-> addr.bytes],
                             [kind |-> "Uint256", bytes |-> amount]>>)]

(***************************************************************************)
(* chain-eth: address validation and the transaction builders              *)
(***************************************************************************)
IsAsciiDigit(c) == \E v \in 1..10 : HexDigits[v] = c
IsAsciiLowercase(c) == \E v \in 11..16 : HexDigits[v] = c
IsAsciiUppercase(c) == \E v \in 11..16 : UpperHexDigits[v] = c

\* to_lowercase and to_ascii_uppercase on the characters of a hex string.
to_lowercase(chars) ==
    [i \in 1..Len(chars) |->
        IF IsAsciiUppercase(chars[i]) THEN HexDigits[HexValue(chars[i]) + 1]
        ELSE chars[i]]

to_ascii_uppercase(c) == IF IsAsciiLowercase(c) THEN UpperHexDigits[HexValue(c) + 1] ELSE c

\* as_bytes of a lowercase hex string: the ASCII codes of its characters.
as_bytes(chars) ==
    [i \in 1..Len(chars) |->
        IF IsAsciiDigit(chars[i]) THEN 48 + HexValue(chars[i])
        ELSE 87 + HexValue(chars[i])]

HasHexPrefix(address) ==
    Len(address) >= 2 /\ SubSeq(address, 1, 2) \in {<<"0", "x">>, <<"0", "X">>}

\* chain-eth checksum_address (EIP-55): a letter is uppercased when the
\* hash digit at its position is 8 or more.
checksum_address(address) ==
    IF ~HasHexPrefix(address) THEN EthError("InvalidAddress")
    ELSE
    LET hex_part == to_lowercase(SubSeq(address, 3, Len(address)))
    IN  IF Len(hex_part) # 40 THEN EthError("InvalidAddress")
        ELSE IF \E i \in 1..40 : ~IsHexDigit(hex_part[i])
        THEN EthError("InvalidAddress")
        ELSE
        LET hash_hex == hex_encode(Keccak256(as_bytes(hex_part)))
        IN  [status |-> "Ok",
             address |->
                 <<"0", "x">> \o
                 [i \in 1..40 |->
                     IF IsAsciiDigit(hex_part[i]) THEN hex_part[i]
                     ELSE IF HexValue(hash_hex[i]) >= 8
                     THEN to_ascii_uppercase(hex_part[i])
                     ELSE hex_part[i]]]

\* chain-eth address::validate_address
eth_validate_address(address) ==
    IF ~HasHexPrefix(address) THEN EthError("InvalidAddress")
    ELSE
    LET hex_part == SubSeq(address, 3, Len(address))
    IN  IF Len(hex_part) # 40 THEN EthError("InvalidAddress")
        ELSE IF \E i \in 1..40 : ~IsHexDigit(hex_part[i])
        THEN EthError("InvalidAddress")
        ELSE
        LET is_all_lower == \A i \in 1..40 : ~IsAsciiUppercase(hex_part[i])
            is_all_upper == \A i \in 1..40 : ~IsAsciiLowercase(hex_part[i])
        IN  IF is_all_lower \/ is_all_upper
            THEN [status |-> "Ok", valid |-> TRUE]
            ELSE LET checksummed ==
                         checksum_address(<<"0", "x">> \o to_lowercase(hex_part))
                 IN  IF checksummed.status = "Err" THEN checksummed
                     ELSE [status |-> "Ok", valid |-> checksummed.address = address]

\* validate_to_address: the address parses.
validate_to_address(address) ==
    LET parsed == parse_to_rlp_address(address)
    IN  IF parsed.status = "Err" THEN parsed ELSE [status |-> "Ok"]

build_transfer(chain_id, nonce, to, value_wei, max_priority_fee, max_fee, gas_limit) ==
    LET checked == validate_to_address(to)
    IN  IF checked.status = "Err" THEN checked
        ELSE [status |-> "Ok",
              tx |-> [chain_id |-> chain_id, nonce |-> nonce,
                      max_priority_fee_per_gas |-> max_priority_fee,
                      max_fee_per_gas |-> max_fee, gas_limit |-> gas_limit,
                      to |-> to, value |-> value_wei, data |-> <<>>]]

build_erc20_transfer(chain_id, nonce, token_contract, to, amount, max_priority_fee, max_fee, gas_limit) ==
    LET checked  == validate_to_address(token_contract)
        calldata == encode_transfer(to, amount)
    IN  IF checked.status = "Err" THEN checked
        ELSE IF calldata.status = "Err" THEN calldata
        ELSE [status |-> "Ok",
              tx |-> [chain_id |-> chain_id, nonce |-> nonce,
                      max_priority_fee_per_gas |-> max_priority_fee,
                      max_fee_per_gas |-> max_fee, gas_limit |-> gas_limit,
                      to |-> token_contract, value |-> 0, data |-> calldata.data]]

(***************************************************************************)
(* chain-btc: sign_transaction.  The function borrows the caller's         *)
(* UnsignedBtcTx; the operator returns the result together with the        *)
(* contents of that object on return.  Keys, digests, signatures and the   *)
(* consensus serialization are represented by the values they are computed *)
(* from.                                                                   *)
(***************************************************************************)
BtcErr(kind) == [status |-> "Err", kind |-> kind]

\* SecretKey::from_slice accepts the secp256k1 scalars 1..n-1 only.
SecretKey_from_slice(private_key) ==
    IF ~IsSecp256k1Scalar(private_key)
    THEN BtcErr("InvalidPrivateKey")
    ELSE [status |-> "Ok", key |-> private_key]

\* The witness of input input_index (0-based): the DER signature of the
\* BIP-143 digest with the sighash type byte, and the public key.
P2wpkhWitness(tx, prevouts, input_index, secret_key) ==
    LET public_key == [public_key_of |-> secret_key]
        sighash    == [tx |-> tx, input_index |-> input_index,
                       script_code |-> [p2wpkh |-> public_key],
                       value |-> prevouts[input_index + 1].value,
                       sighash_type |-> "All"]
    IN  <<[der |-> [signed |-> sighash, by |-> secret_key], sighash_type |-> "All"],
          public_key>>

\* signed_tx after the loop over its inputs.
SignedInputs(tx, prevouts, secret_key) ==
    [i \in 1..Len(tx.input) |->
        [tx.input[i] EXCEPT !.witness = P2wpkhWitness(tx, prevouts, i - 1, secret_key)]]

\* Mutant of btc_sign_transaction: the witnesses are written into the
\* caller's transaction.
btc_sign_transaction_InPlace(unsigned_tx, private_key) ==
    LET secret_key == SecretKey_from_slice(private_key)
    IN  IF secret_key.status = "Err"
        THEN [ret |-> secret_key, unsigned_tx |-> unsigned_tx]
        ELSE IF Len(unsigned_tx.prevouts) < Len(unsigned_tx.tx.input)
        THEN [ret |-> [status |-> "Panic"], unsigned_tx |-> unsigned_tx]
        ELSE LET signed_tx ==
                     [unsigned_tx.tx EXCEPT
                         !.input = SignedInputs(unsigned_tx.tx, unsigned_tx.prevouts,
                                                secret_key.key)]
             IN  [ret |-> [status |-> "Ok", bytes |-> [consensus_serialize |-> signed_tx]],
                  unsigned_tx |-> [unsigned_tx EXCEPT !.tx = signed_tx]]

\* chain-btc sign_transaction: the witnesses go into a clone of
\* unsigned_tx.tx; unsigned_tx.prevouts[input_index] panics when there are
\* fewer prevouts than inputs.
btc_sign_transaction(unsigned_tx, private_key) ==
    LET secret_key == SecretKey_from_slice(private_key)
    IN  IF secret_key.status = "Err"
        THEN [ret |-> secret_key, unsigned_tx |-> unsigned_tx]
        ELSE IF Len(unsigned_tx.prevouts) < Len(unsigned_tx.tx.input)
        THEN [ret |-> [status |-> "Panic"], unsigned_tx |-> unsigned_tx]
        ELSE LET signed_tx ==
                     [unsigned_tx.tx EXCEPT
                         !.input = SignedInputs(unsigned_tx.tx, unsigned_tx.prevouts,
                                                secret_key.key)]
             IN  [ret |-> [status |-> "Ok", bytes |-> [consensus_serialize |-> signed_tx]],
                  unsigned_tx |-> unsigned_tx]

(***************************************************************************)
(* u64 arithmetic at the top of the range.  The UTXO code uses the plain   *)
(* operators +, += and *.  Built with overflow checks (the dev profile) an *)
(* overflowing operation panics; built without them (the release profile)  *)
(* it wraps.  No profile of the workspace overrides the default.           *)
(***************************************************************************)
Overflows(n) == n >= U64_RANGE

\* The running total after i additions.
RECURSIVE WrappedTotal(_, _)
WrappedTotal(amounts, i) ==
    IF i = 0 THEN 0 ELSE AddU64(WrappedTotal(amounts, i - 1), amounts[i])

\* Whether an operation of iteration i of a selection loop overflows: the
\* addition to the total, the product size * rate, or the sum target + fee.
LoopStepOverflows(amounts, i, size, target, fee_rate) ==
    \/ Overflows(WrappedTotal(amounts, i - 1) + amounts[i])
    \/ Overflows(size * fee_rate)
    \/ Overflows(target + MulU64(size, fee_rate))

\* Whether select_utxos executes an overflowing operation.  The estimate
\* after the loop repeats the operations of the last iteration.
select_utxos_overflows(utxos, target_sat, fee_rate) ==
    LET sorted  == BtcSorted(utxos)
        amounts == [i \in 1..Len(sorted) |-> sorted[i].amount_sat]
        r       == BtcSelectLoop(sorted, 1, 0, target_sat, fee_rate)
    IN  /\ utxos # <<>>
        /\ \E i \in 1..r.n :
               LoopStepOverflows(amounts, i,
                   TX_OVERHEAD_VBYTES + i * P2WPKH_INPUT_VBYTES + 2 * OUTPUT_VBYTES,
                   target_sat, fee_rate)

\* Whether build_transparent_transaction, given valid addresses, executes an
\* overflowing operation: in the loop, or in fee_2out and amount_zat +
\* fee_2out after it (fee_1out and amount_zat + fee_1out are smaller).
zec_build_overflows(utxos, amount_zat, fee_rate) ==
    LET sorted  == ZecSorted(utxos)
        amounts == [i \in 1..Len(sorted) |-> sorted[i].amount_zatoshi]
        r       == ZecSelectLoop(sorted, 1, 0, amount_zat, fee_rate)
        size_2out == TX_OVERHEAD_BYTES + r.n * INPUT_BYTES + 2 * OUTPUT_BYTES
    IN  \/ \E i \in 1..r.n :
               LoopStepOverflows(amounts, i,
                   TX_OVERHEAD_BYTES + i * INPUT_BYTES + 2 * OUTPUT_BYTES,
                   amount_zat, fee_rate)
        \/ Overflows(size_2out * fee_rate)
        \/ Overflows(amount_zat + MulU64(size_2out, fee_rate))

\* The outcome of a call under the build's setting of overflow checks.
WithOverflowChecks(overflow_checks, overflows, wrapped) ==
    IF overflow_checks /\ overflows THEN [status |-> "Panic"] ELSE wrapped

(***************************************************************************)
(* Inputs                                                                  *)
(***************************************************************************)
UtxoAmounts == {300, 1000, 3000}
Targets     == {0, 100, 500, 870, 2500}
FeeRates    == {0, 1, 2}

SeqsUpTo(S, n) == UNION {[1..k -> S] : k \in 0..n}

MkUtxos(amts, oks) ==
    [i \in 1..Len(amts) |->
        [txid |-> i, txid_ok |-> oks[i], vout |-> 0, amount_sat |-> amts[i], script_pubkey |-> i]]

MkZecUtxos(amts, oks) ==
    [i \in 1..Len(amts) |->
        [txid |-> i, txid_ok |-> oks[i], vout |-> 0, amount_zatoshi |-> amts[i],
         script_pubkey |-> i]]

AllOk(n) == [i \in 1..n |-> TRUE]

\* Per-UTXO txid validity: all valid, or exactly one malformed txid.
TxidFlags(n) == {AllOk(n)} \cup {[i \in 1..n |-> i # j] : j \in 1..n}

BtcRecipient == [well_formed |-> TRUE, net |-> "Bitcoin", script |-> "recipient"]
BtcChange    == [well_formed |-> TRUE, net |-> "Bitcoin", script |-> "change"]
BtcAddresses ==
    {BtcRecipient, BtcChange,
     [well_formed |-> TRUE, net |-> "Testnet", script |-> "tb"],
     [well_formed |-> FALSE, net |-> "Bitcoin", script |-> "bad"]}
BtcNetworks == {"Mainnet", "Testnet", "Signet"}

ZecRecipient == [base58_ok |-> TRUE, len |-> 26, checksum_ok |-> TRUE,
                 version |-> T_ADDR_VERSION_MAINNET, hash |-> "recipient"]
ZecChange    == [base58_ok |-> TRUE, len |-> 26, checksum_ok |-> TRUE,
                 version |-> T_ADDR_VERSION_MAINNET, hash |-> "change"]
ZecAddresses ==
    {ZecRecipient, ZecChange,
     [base58_ok |-> TRUE, len |-> 26, checksum_ok |-> TRUE,
      version |-> T_ADDR_VERSION_TESTNET, hash |-> "tm"],
     [base58_ok |-> TRUE, len |-> 26, checksum_ok |-> FALSE,
      version |-> T_ADDR_VERSION_MAINNET, hash |-> "badsum"],
     [base58_ok |-> TRUE, len |-> 25, checksum_ok |-> TRUE,
      version |-> T_ADDR_VERSION_MAINNET, hash |-> "short"],
     [base58_ok |-> FALSE, len |-> 0, checksum_ok |-> FALSE,
      version |-> 0, hash |-> "notbase58"]}
ZecNetworks == {"Mainnet", "Testnet"}

SelectCalls ==
    {[op |-> "select_utxos", utxos |-> MkUtxos(a, AllOk(Len(a))), target |-> t, fee_rate |-> r] :
        a \in SeqsUpTo(UtxoAmounts, MaxUtxos), t \in Targets, r \in FeeRates}

\* UTXO lists with their txid validity flags.
UtxoInputs ==
    UNION {{<<a, f>> : f \in TxidFlags(Len(a))} : a \in SeqsUpTo(UtxoAmounts, MaxUtxos)}

\* Every UTXO list, amount and rate with a valid address pair, every
\* address pair and network with an empty and a one-UTXO list, and every
\* UTXO list, amount and rate with a recipient of another network or a
\* malformed change address.
BtcBuildCalls ==
    {[op |-> "build_p2wpkh_transaction", utxos |-> MkUtxos(u[1], u[2]),
      recipient |-> BtcRecipient, amount |-> t, change_address |-> BtcChange,
      fee_rate |-> r, network |-> "Mainnet"] :
        u \in UtxoInputs, t \in Targets, r \in FeeRates}
    \cup
    {[op |-> "build_p2wpkh_transaction", utxos |-> MkUtxos(a, AllOk(Len(a))),
      recipient |-> ra, amount |-> t, change_address |-> ca,
      fee_rate |-> 1, network |-> n] :
        a \in {<<>>, <<1000>>}, t \in {500, 2500},
        ra \in BtcAddresses, ca \in BtcAddresses, n \in BtcNetworks}
    \cup
    {[op |-> "build_p2wpkh_transaction", utxos |-> MkUtxos(u[1], u[2]),
      recipient |-> p[1], amount |-> t, change_address |-> p[2],
      fee_rate |-> r, network |-> "Mainnet"] :
        u \in UtxoInputs, t \in Targets, r \in FeeRates,
        p \in {<<[well_formed |-> TRUE, net |-> "Testnet", script |-> "tb"], BtcChange>>,
               <<BtcRecipient, [well_formed |-> FALSE, net |-> "Bitcoin", script |-> "bad"]>>}}

ZecBuildCalls ==
    {[op |-> "build_transparent_transaction", utxos |-> MkZecUtxos(u[1], u[2]),
      recipient |-> ZecRecipient, amount |-> t, change_address |-> ZecChange,
      fee_rate |-> r, network |-> "Mainnet", expiry_height |-> 0] :
        u \in UtxoInputs, t \in Targets, r \in FeeRates}
    \cup
    {[op |-> "build_transparent_transaction", utxos |-> MkZecUtxos(a, AllOk(Len(a))),
      recipient |-> ra, amount |-> t, change_address |-> ca,
      fee_rate |-> 1, network |-> n, expiry_height |-> 0] :
        a \in {<<>>, <<1000>>}, t \in {500, 2500},
        ra \in ZecAddresses, ca \in ZecAddresses, n \in ZecNetworks}

\* Solana instruction lists: one instruction with up to MaxIxAccounts account
\* references, two instructions with at most one reference each, and one
\* instruction that references BulkAccounts distinct writable accounts.
MaxIxAccounts == 2
MaxBulkAccounts == 257
SolKeys == {1, 2, 3}
SolPrograms == {2, 9}
SolFeePayers == {1, 2}
Metas == [pubkey : SolKeys, is_signer : BOOLEAN, is_writable : BOOLEAN]

OneInstruction ==
    {<<[program_id |-> p, accounts |-> a, data |-> <<2, 0, 0, 0>>]>> :
        p \in SolPrograms, a \in SeqsUpTo(Metas, MaxIxAccounts)}

TwoInstructions ==
    {<<[program_id |-> p1, accounts |-> a1, data |-> <<3>>],
       [program_id |-> p2, accounts |-> a2, data |-> <<>>]>> :
        p1 \in SolPrograms, p2 \in SolPrograms,
        a1 \in SeqsUpTo(Metas, 1), a2 \in SeqsUpTo(Metas, 1)}

BulkInstruction(n) ==
    <<[program_id |-> 9,
       accounts |-> [j \in 1..n |->
                        [pubkey |-> 100 + j, is_signer |-> FALSE,
                         is_writable |-> TRUE]],
       data |-> <<2, 0, 0, 0>>]>>

InstructionLists ==
    {<<>>} \cup OneInstruction \cup TwoInstructions
        \cup {BulkInstruction(n) : n \in {MaxBulkAccounts - 3, MaxBulkAccounts}}

CompileCalls ==
    {[op |-> "compile_transaction", instructions |-> ixs, fee_payer |-> f,
      recent_blockhash |-> 77] :
        ixs \in InstructionLists, f \in SolFeePayers}

\* Raw Solana transactions: a signature count (canonical, or the two-byte
\* encoding of 1), some 64-byte slots already filled by other signers, and a
\* message with a header, up to MaxRawAccounts account keys and a tail.  The
\* declared count, the slots present and the header are chosen independently,
\* and the byte string may be cut short.
MaxRawSigs == 2
MaxRawAccounts == 3
WalletKey == [i \in 1..PUBKEY_BYTES |-> 1]
OtherKeys == {[i \in 1..PUBKEY_BYTES |-> k] : k \in {2, 3}}
RawAccountKeys == {verifying_key(k) : k \in {WalletKey} \cup OtherKeys}

FilledSlots(n) == Concat([k \in 1..n |-> Bytes(SIGNATURE_BYTES, 10 + k)])

MessageTails == {<<>>, Bytes(32, 77) \o <<0>>}

RawMessages ==
    {<<nreq, 0, 1>> \o encode_compact_u16(Len(keys)) \o Concat(keys) \o tail :
        nreq \in 0..MaxRawAccounts, keys \in SeqsUpTo(RawAccountKeys, MaxRawAccounts),
        tail \in MessageTails}

SigCounts == {encode_compact_u16(n) : n \in 0..MaxRawSigs} \cup {<<129, 0>>}

RawTransactions ==
    {c \o FilledSlots(n) \o m :
        c \in SigCounts, n \in 0..MaxRawSigs, m \in RawMessages}
    \cup {<<>>, <<128>>, <<1>> \o Bytes(SIGNATURE_BYTES, 11) \o <<1, 0, 1>>,
          <<1>> \o Bytes(SIGNATURE_BYTES, 11) \o <<1, 0, 1, 128>>,
          <<1>> \o Bytes(SIGNATURE_BYTES, 11) \o <<1, 0, 1, 2>>
              \o verifying_key(WalletKey)}

RawSignCalls ==
    {[op |-> "sign_sol_raw_transaction", private_key |-> WalletKey,
      raw_tx |-> t] : t \in RawTransactions}

\* wallet-core calls.  A seed is the 64-byte BIP-39 seed, or a buffer of
\* another length; account and index are u32 values below or at the
\* hardened bit; strings are described by what the parsers look at.
Seeds == {Bytes(SEED_BYTES, 171), Bytes(12, 5)}
Accounts == {U32(FALSE, 0), U32(TRUE, 0)}
HexValues ==
    {[hex_ok |-> TRUE, digits |-> 16], [hex_ok |-> FALSE, digits |-> 2],
     [hex_ok |-> TRUE, digits |-> 0]}
HexAmounts ==
    {[hex_ok |-> TRUE, digits |-> 5], [hex_ok |-> TRUE, digits |-> 66],
     [hex_ok |-> FALSE, digits |-> 2]}
EthAddress == [prefix_0x |-> TRUE, hex_len |-> 40, hex_ok |-> TRUE]
EthAddresses ==
    {EthAddress, [EthAddress EXCEPT !.prefix_0x = FALSE],
     [EthAddress EXCEPT !.hex_len = 4], [EthAddress EXCEPT !.hex_ok = FALSE]}
SolAddress == [base58_ok |-> TRUE, bytes |-> Bytes(PUBKEY_BYTES, 9)]
SolAddresses ==
    {SolAddress, [base58_ok |-> FALSE, bytes |-> <<>>],
     [base58_ok |-> TRUE, bytes |-> Bytes(31, 9)]}
Blockhashes == {Bytes(32, 77), Bytes(31, 77)}
Messages == {<<>>, <<104, 105>>}

EthCalls ==
    {[op |-> "sign_eth_message", seed |-> s, account |-> a, index |-> i,
      message |-> m] :
        s \in Seeds, a \in Accounts, i \in Accounts, m \in Messages}
    \cup
    {[op |-> "sign_eth_raw_hash", seed |-> s, account |-> a, index |-> U32(FALSE, 0),
      hash |-> h] :
        s \in Seeds, a \in Accounts, h \in Blockhashes}
    \cup
    {[op |-> "sign_eth_transaction", seed |-> s, account |-> a, index |-> U32(FALSE, 0),
      to_address |-> t, value_wei_hex |-> v, max_priority_fee_hex |-> p,
      max_fee_hex |-> f] :
        s \in Seeds, a \in Accounts, t \in EthAddresses, v \in HexValues,
        p \in HexValues, f \in HexValues}
    \cup
    {[op |-> "sign_erc20_transfer", seed |-> s, account |-> a, index |-> U32(FALSE, 0),
      token_contract |-> c, to_address |-> t, amount_hex |-> v,
      max_priority_fee_hex |-> p, max_fee_hex |-> p] :
        s \in Seeds, a \in Accounts, c \in EthAddresses, t \in EthAddresses,
        v \in HexAmounts, p \in HexValues}

\* Raw transactions for the wallet whose Solana public key is w: empty, the
\* wallet as the only signer, the wallet among the non-signers, and the
\* wallet as second or third required signer behind a single signature slot.
WalletRawTransactions(w) ==
    LET other == verifying_key(Bytes(PUBKEY_BYTES, 2))
        third == verifying_key(Bytes(PUBKEY_BYTES, 3))
        tail  == Bytes(32, 77) \o <<0>>
    IN  {<<>>,
         <<1>> \o FilledSlots(1) \o <<1, 0, 1, 2>> \o w \o other \o tail,
         <<1>> \o FilledSlots(1) \o <<1, 0, 1, 2>> \o other \o w \o tail,
         <<1>> \o FilledSlots(1) \o <<2, 0, 0, 2>> \o other \o w \o tail,
         <<1>> \o FilledSlots(1) \o <<3, 0, 0, 3>> \o other \o third \o w}

SolCalls ==
    {[op |-> "sign_sol_message", seed |-> s, account |-> a, message |-> m] :
        s \in Seeds, a \in Accounts, m \in Messages}
    \cup
    {[op |-> "sign_sol_transfer", seed |-> s, account |-> a, to_address |-> t,
      lamports |-> l, recent_blockhash |-> b] :
        s \in Seeds, a \in Accounts, t \in SolAddresses, l \in {0, 5},
        b \in Blockhashes}
    \cup
    {[op |-> "sign_spl_transfer", seed |-> s, account |-> a, to_address |-> t,
      mint_address |-> m, amount |-> l, recent_blockhash |-> b] :
        s \in Seeds, a \in Accounts, t \in SolAddresses, m \in SolAddresses,
        l \in {0, 5}, b \in Blockhashes}
    \cup
    UNION {{[op |-> "wallet_sign_sol_raw_transaction", seed |-> s,
             account |-> a, raw_tx |-> t] :
               t \in WalletRawTransactions(derive_ed25519_key(s, a).public_key)} :
           s \in Seeds, a \in Accounts}

UtxoCalls ==
    {[op |-> "sign_btc_transaction", seed |-> s, account |-> a, index |-> U32(FALSE, 0),
      utxos |-> MkUtxos(u[1], u[2]), recipient_address |-> r,
      amount_sat |-> t, change_address |-> BtcChange,
      fee_rate_sat_vbyte |-> 1, is_testnet |-> n] :
        s \in Seeds, a \in Accounts, u \in {<<<<>>, <<>>>>, <<<<1000>>, <<TRUE>>>>,
                                             <<<<3000>>, <<FALSE>>>>},
        r \in BtcAddresses, t \in {500, 2500}, n \in BOOLEAN}
    \cup
    {[op |-> "sign_zec_transaction", seed |-> s, account |-> a, index |-> U32(FALSE, 0),
      utxos |-> MkZecUtxos(u[1], u[2]), recipient_address |-> r,
      amount_zatoshi |-> t, change_address |-> ZecChange,
      fee_rate_zat_byte |-> 1, expiry_height |-> 0, is_testnet |-> n] :
        s \in Seeds, a \in Accounts, u \in {<<<<>>, <<>>>>, <<<<1000>>, <<TRUE>>>>,
                                             <<<<3000>>, <<FALSE>>>>},
        r \in ZecAddresses, t \in {500, 2500}, n \in BOOLEAN}

WalletCalls == EthCalls \cup SolCalls \cup UtxoCalls

\* Every u16 value for the encoder; for the decoder every byte string of up
\* to MaxCompactBytes bytes over bytes on both sides of the continuation bit.
MaxCompactBytes == 4
CompactBytes == {0, 1, 3, 127, 128, 129, 255}
EncodeCalls == {[op |-> "encode_compact_u16", value |-> v] : v \in 0..U16_MAX}
DecodeCalls ==
    {[op |-> "decode_compact_u16", data |-> d] : d \in SeqsUpTo(CompactBytes, MaxCompactBytes)}
CodecCalls == EncodeCalls \cup DecodeCalls

\* The searches derive_associated_token_address starts (seeds wallet, token
\* program id, mint): the candidate digest of each bump, and
\* curves on which none, the first, the first two, every second, all but
\* one, all but bump 0, or all of the candidates lie.
PdaWallets == {verifying_key(WalletKey), Bytes(PUBKEY_BYTES, 9)}
PdaMints   == {Bytes(PUBKEY_BYTES, 4), Bytes(PUBKEY_BYTES, 5)}
Candidate(wallet, mint, bump) ==
    Sha256(wallet \o TOKEN_PROGRAM_ID \o mint \o <<bump>> \o ASSOCIATED_TOKEN_PROGRAM_ID
               \o PDA_MARKER)
BumpSets ==
    {{}, {255}, {254, 255}, {254}, {0}, {b \in 0..255 : b % 2 = 1}, 128..255,
     (0..255) \ {100}, 1..255, 0..255}
PdaCalls ==
    {[op |-> "find_program_address", seeds |-> <<w, TOKEN_PROGRAM_ID, m>>,
      program_id |-> ASSOCIATED_TOKEN_PROGRAM_ID,
      curve_points |-> {Candidate(w, m, b) : b \in bs}] :
        w \in PdaWallets, m \in PdaMints, bs \in BumpSets}

\* Transfers built by build_sol_transfer: senders are the public keys of
\* the signing keys, recipients include the sender itself and the system
\* program, amounts need one, two and three little-endian bytes.
TransferSigners == {WalletKey, Bytes(PUBKEY_BYTES, 2)}
TransferRecipients ==
    {Bytes(PUBKEY_BYTES, 9), verifying_key(WalletKey), SYSTEM_PROGRAM_ID}
TransferLamports == {1, 300, 70000}
BuiltTransfers ==
    {build_sol_transfer(verifying_key(k), t, l, Bytes(32, 77)) :
        k \in TransferSigners, t \in TransferRecipients, l \in TransferLamports}

\* Two instructions over byte keys, compiled: a transfer and a call of
\* program Bytes(32, 8) with no accounts and MaxDataBytes bytes of data
\* (a two-byte length prefix).
MaxDataBytes == 130
CompiledPairs ==
    {compile_transaction(
         <<[program_id |-> SYSTEM_PROGRAM_ID,
            accounts |-> <<[pubkey |-> verifying_key(WalletKey), is_signer |-> TRUE,
                            is_writable |-> TRUE],
                           [pubkey |-> t, is_signer |-> FALSE, is_writable |-> w]>>,
            data |-> LeBytes(2, 4) \o LeBytes(5, 8)],
           [program_id |-> Bytes(PUBKEY_BYTES, 8), accounts |-> <<>>,
            data |-> Bytes(n, 200)]>>,
         verifying_key(WalletKey), Bytes(32, 77)) :
        t \in TransferRecipients, w \in BOOLEAN, n \in {0, 1, MaxDataBytes}}

\* A transaction with MaxWideKeys account keys (a two-byte key count) and
\* one instruction that names every one of them.
MaxWideKeys == 130
WideTransaction ==
    [status |-> "Ok",
     account_keys |-> [i \in 1..MaxWideKeys |-> Bytes(PUBKEY_BYTES, i)],
     num_required_signatures |-> 1,
     num_readonly_signed |-> 0,
     num_readonly_unsigned |-> 1,
     recent_blockhash |-> Bytes(32, 77),
     compiled_instructions |->
         <<[program_id_index |-> MaxWideKeys - 1,
            account_indices |-> [i \in 1..MaxWideKeys |-> i - 1],
            data |-> <<7>>]>>]

\* A transaction without account keys and without instructions.
EmptyTransaction ==
    [status |-> "Ok", account_keys |-> <<>>, num_required_signatures |-> 0,
     num_readonly_signed |-> 0, num_readonly_unsigned |-> 0,
     recent_blockhash |-> Bytes(32, 77), compiled_instructions |-> <<>>]

\* SPL token transfers, compiled with the wallet as fee payer: the owner of
\* the source token account is the fee payer or another key.
SplOwners == TransferSigners
SplTransfers ==
    {compile_transaction(
         <<[program_id |-> TOKEN_PROGRAM_ID,
            accounts |-> <<[pubkey |-> Bytes(PUBKEY_BYTES, 21), is_signer |-> FALSE,
                            is_writable |-> TRUE],
                           [pubkey |-> Bytes(PUBKEY_BYTES, 22), is_signer |-> FALSE,
                            is_writable |-> TRUE],
                           [pubkey |-> verifying_key(o), is_signer |-> TRUE,
                            is_writable |-> FALSE]>>,
            data |-> <<3>> \o LeBytes(a, 8)]>>,
         verifying_key(WalletKey), Bytes(32, 77)) :
        o \in SplOwners, a \in {5, 70000}}

CompiledTransactions == BuiltTransfers \cup CompiledPairs \cup SplTransfers

SolTransactions ==
    CompiledTransactions \cup {WideTransaction, EmptyTransaction}

SerializeCalls == {[op |-> "serialize_message", tx |-> tx] : tx \in SolTransactions}

SignTransactionCalls ==
    {[op |-> "sign_transaction", tx |-> tx, private_key |-> k] :
        tx \in SolTransactions, k \in TransferSigners}

\* Ethereum addresses as characters: lowercase, mixed case with the 0X
\* prefix, one starting with zero bytes, and malformed ones (no prefix, 39
\* digits, a character that is no hex digit).
EthHexLower == [i \in 1..40 |-> HexDigits[((3 * i) % 16) + 1]]
EthHexMixed ==
    [i \in 1..40 |-> IF i % 2 = 0 THEN UpperHexDigits[((5 * i) % 16) + 1]
                     ELSE HexDigits[((7 * i) % 16) + 1]]
EthHexZeros == [i \in 1..40 |-> IF i <= 6 THEN "0" ELSE HexDigits[((3 * i) % 16) + 1]]
EthToAddresses ==
    {<<"0", "x">> \o EthHexLower, <<"0", "X">> \o EthHexMixed, <<"0", "x">> \o EthHexZeros,
     EthHexLower, <<"0", "x">> \o SubSeq(EthHexLower, 1, 39),
     <<"0", "x">> \o [EthHexLower EXCEPT ![40] = "g"]}

\* Field values on both sides of the one-byte RLP boundary (0x7f / 0x80)
\* and with two and three bytes; data that is empty, one small byte, one
\* large byte, and MaxEthData bytes (a long-string header).
MaxEthData == 68
EthNonces == {0, 1, 127, 128, 70000}
EthValues == {0, 128, 256}
EthData == {<<>>, <<5>>, <<200>>, [i \in 1..MaxEthData |-> (i * 37) % U8_RANGE]}
EthTransactions ==
    {[chain_id |-> 1, nonce |-> n, max_priority_fee_per_gas |-> 1500,
      max_fee_per_gas |-> 70000, gas_limit |-> 21000, to |-> t, value |-> v,
      data |-> d] :
        n \in EthNonces, t \in EthToAddresses, v \in EthValues, d \in EthData}
EthKeys == {Bytes(32, 1), Bytes(32, 77), Bytes(32, 0), Bytes(32, 255)}

EthSignCalls ==
    {[op |-> "eth_sign_transaction", tx |-> tx, private_key |-> k] :
        tx \in EthTransactions, k \in EthKeys}

\* ABI parameters of each kind; Bytes values that are empty, shorter than a
\* word, exactly a word and longer than a word.  Lists of up to MaxParams
\* parameters.
MaxParams == 2
AbiAddresses == {[i \in 1..20 |-> 200 + i], [i \in 1..20 |-> IF i < 4 THEN 0 ELSE i]}
AbiUints == {[i \in 1..32 |-> IF i < 30 THEN 0 ELSE i], [i \in 1..32 |-> 255]}
AbiBytes == {<<>>, <<1, 2, 3, 4, 5>>, [i \in 1..32 |-> i], [i \in 1..40 |-> 100 + i]}
AbiParams ==
    {[kind |-> "Address", bytes |-> b] : b \in AbiAddresses}
        \cup {[kind |-> "Uint256", bytes |-> b] : b \in AbiUints}
        \cup {[kind |-> "Bytes", bytes |-> b] : b \in AbiBytes}
AbiCalls ==
    {[op |-> "encode_function_call", selector |-> s, params |-> ps] :
        s \in {TRANSFER_SELECTOR, <<112, 160, 130, 49>>},
        ps \in SeqsUpTo(AbiParams, MaxParams)}
    \cup
    {[op |-> "encode_transfer", to |-> t, amount |-> a] :
        t \in EthToAddresses, a \in AbiUints}

\* Unsigned transactions for chain-btc sign_transaction: what
\* build_p2wpkh_transaction returns for one and for three inputs, with and
\* without change, and one with a prevout missing.
BuiltBtcTxs ==
    {[tx |-> b.tx, prevouts |-> b.prevouts] :
        b \in {build_p2wpkh_transaction(MkUtxos(a, AllOk(Len(a))), BtcRecipient, t,
                                        BtcChange, 1, "Mainnet") :
                 a \in {<<1000>>, <<3000, 300>>, <<300, 300, 300>>}, t \in {100, 500}}}
ShortPrevouts(u) == [u EXCEPT !.prevouts = SubSeq(u.prevouts, 1, Len(u.prevouts) - 1)]
BtcSignCalls ==
    {[op |-> "btc_sign_transaction", unsigned_tx |-> u, private_key |-> k] :
        u \in BuiltBtcTxs \cup {ShortPrevouts(v) : v \in BuiltBtcTxs}, k \in EthKeys}

\* The UTXO functions on amounts, targets and fee rates up to the largest
\* u64 value, under both settings of overflow checks.
U64_MAX == U64_RANGE - 1
WideAmounts == {<<U64_MAX>>, <<U64_MAX, U64_MAX>>, <<U64_MAX, 5>>, <<1000>>}
WideTargets == {1000, U64_MAX - 100, U64_MAX}
WideRates   == {0, 1, 5000, U64_MAX}
WideUtxoCalls ==
    {[op |-> "select_utxos_u64", utxos |-> MkUtxos(a, AllOk(Len(a))), target |-> t,
      fee_rate |-> r, overflow_checks |-> c] :
        a \in WideAmounts, t \in WideTargets, r \in WideRates, c \in BOOLEAN}
    \cup
    {[op |-> "build_p2wpkh_transaction_u64", utxos |-> MkUtxos(a, AllOk(Len(a))),
      recipient |-> BtcRecipient, amount |-> t, change_address |-> BtcChange,
      fee_rate |-> r, network |-> "Mainnet", overflow_checks |-> c] :
        a \in WideAmounts, t \in WideTargets, r \in WideRates, c \in BOOLEAN}
    \cup
    {[op |-> "build_transparent_transaction_u64", utxos |-> MkZecUtxos(a, AllOk(Len(a))),
      recipient |-> ZecRecipient, amount |-> t, change_address |-> ZecChange,
      fee_rate |-> r, network |-> "Mainnet", expiry_height |-> 0,
      overflow_checks |-> c] :
        a \in WideAmounts, t \in WideTargets, r \in WideRates, c \in BOOLEAN}

\* Addresses for the builders: those above, the EIP-55 form of the lowercase
\* one, and that form with the case of every letter inverted (mixed case,
\* wrong checksum).
EthChecksummed == checksum_address(<<"0", "x">> \o EthHexLower).address
EthBadChecksum ==
    [i \in 1..42 |->
        IF i > 2 /\ IsAsciiLowercase(EthChecksummed[i])
        THEN to_ascii_uppercase(EthChecksummed[i])
        ELSE IF i > 2 /\ IsAsciiUppercase(EthChecksummed[i])
        THEN HexDigits[HexValue(EthChecksummed[i]) + 1]
        ELSE EthChecksummed[i]]
EthBuildAddresses == EthToAddresses \cup {EthChecksummed, EthBadChecksum}
EthBuildCalls ==
    {[op |-> "build_transfer", chain_id |-> 1, nonce |-> n, to |-> t, value_wei |-> v,
      max_priority_fee |-> 1500, max_fee |-> 70000, gas_limit |-> 21000] :
        n \in EthNonces, t \in EthBuildAddresses, v \in EthValues}
    \cup
    {[op |-> "build_erc20_transfer", chain_id |-> 1, nonce |-> n, token_contract |-> c,
      to |-> t, amount |-> a, max_priority_fee |-> 1500, max_fee |-> 70000,
      gas_limit |-> 60000] :
        n \in {0, 128}, c \in EthBuildAddresses, t \in EthBuildAddresses,
        a \in AbiUints}

\* Direct key derivations for Solana: accounts 0 and 1 and the same numbers
\* with bit 31 set (2^31 and 2^31 + 1).
DeriveAccounts == {U32(h, n) : h \in BOOLEAN, n \in {0, 1}}
DeriveCalls ==
    {[op |-> "derive_ed25519_key", seed_bytes |-> s, chain |-> "Solana", account |-> a] :
        s \in Seeds, a \in DeriveAccounts}

\* Messages for personal_sign: empty, short, and of a two-digit length.
EthMessages == {<<>>, <<104, 105>>, Bytes(12, 7)}
EthMessageCalls ==
    {[op |-> "eth_sign_message", message |-> m, private_key |-> k] :
        m \in EthMessages, k \in EthKeys}

\* The calls that own no seed buffer: the functions of the chain crates and
\* the key derivation, which borrows its seed.
ChainCalls ==
    SelectCalls \cup BtcBuildCalls \cup ZecBuildCalls \cup CompileCalls
        \cup RawSignCalls \cup PdaCalls \cup SerializeCalls
        \cup SignTransactionCalls \cup EthSignCalls \cup AbiCalls
        \cup BtcSignCalls \cup EthMessageCalls \cup WideUtxoCalls
        \cup EthBuildCalls \cup DeriveCalls

(***************************************************************************)
(* Actions                                                                 *)
(***************************************************************************)
\* seed is the seed buffer handed to a wallet-core entry point (empty for
\* the operations that take no seed).
Init ==
    /\ ret = Pending
    /\ key_copy = <<>>
    /\ \/ call \in WalletCalls /\ seed = call.seed
       \/ call \in ChainCalls /\ seed = <<>>
       \/ call \in CodecCalls /\ seed = <<>>

\* A wallet-core entry point returns r.ret and leaves r.seed in its buffer.
Returns(r) ==
    /\ ret' = r.ret
    /\ seed' = r.seed
    /\ UNCHANGED <<call, key_copy>>

SignEthMessage ==
    /\ ret = Pending
    /\ call.op = "sign_eth_message"
    /\ Returns(sign_eth_message(seed, call.account, call.index, call.message))

SignEthTransaction ==
    /\ ret = Pending
    /\ call.op = "sign_eth_transaction"
    /\ Returns(sign_eth_transaction(seed, call.account, call.index,
                                    call.to_address, call.value_wei_hex,
                                    call.max_priority_fee_hex, call.max_fee_hex))

SignSolTransfer ==
    /\ ret = Pending
    /\ call.op = "sign_sol_transfer"
    /\ Returns(sign_sol_transfer(seed, call.account, call.to_address,
                                 call.lamports, call.recent_blockhash))

SignEthRawHash ==
    /\ ret = Pending
    /\ call.op = "sign_eth_raw_hash"
    /\ Returns(sign_eth_raw_hash(seed, call.account, call.index, call.hash))

SignErc20Transfer ==
    /\ ret = Pending
    /\ call.op = "sign_erc20_transfer"
    /\ Returns(sign_erc20_transfer(seed, call.account, call.index,
                                   call.token_contract, call.to_address,
                                   call.amount_hex, call.max_priority_fee_hex,
                                   call.max_fee_hex))

SignSplTransfer ==
    /\ ret = Pending
    /\ call.op = "sign_spl_transfer"
    /\ Returns(sign_spl_transfer(seed, call.account, call.to_address,
                                 call.mint_address, call.amount,
                                 call.recent_blockhash))

SignSolMessage ==
    /\ ret = Pending
    /\ call.op = "sign_sol_message"
    /\ Returns(sign_sol_message(seed, call.account, call.message))

WalletSignSolRawTransaction ==
    /\ ret = Pending
    /\ call.op = "wallet_sign_sol_raw_transaction"
    /\ Returns(wallet_sign_sol_raw_transaction(seed, call.account, call.raw_tx))

SignZecTransaction ==
    /\ ret = Pending
    /\ call.op = "sign_zec_transaction"
    /\ Returns(sign_zec_transaction(seed, call.account, call.index, call.utxos,
                                    call.recipient_address, call.amount_zatoshi,
                                    call.change_address, call.fee_rate_zat_byte,
                                    call.expiry_height, call.is_testnet))

SignBtcTransaction ==
    /\ ret = Pending
    /\ call.op = "sign_btc_transaction"
    /\ Returns(sign_btc_transaction(seed, call.account, call.index, call.utxos,
                                    call.recipient_address, call.amount_sat,
                                    call.change_address, call.fee_rate_sat_vbyte,
                                    call.is_testnet))

SelectUtxos ==
    /\ ret = Pending
    /\ call.op = "select_utxos"
    /\ ret' = select_utxos(call.utxos, call.target, call.fee_rate)
    /\ UNCHANGED <<call, seed, key_copy>>

BuildP2wpkhTransaction ==
    /\ ret = Pending
    /\ call.op = "build_p2wpkh_transaction"
    /\ ret' = build_p2wpkh_transaction(call.utxos, call.recipient, call.amount,
                                       call.change_address, call.fee_rate, call.network)
    /\ UNCHANGED <<call, seed, key_copy>>

BuildTransparentTransaction ==
    /\ ret = Pending
    /\ call.op = "build_transparent_transaction"
    /\ ret' = build_transparent_transaction(call.utxos, call.recipient, call.amount,
                                            call.change_address, call.fee_rate,
                                            call.network, call.expiry_height)
    /\ UNCHANGED <<call, seed, key_copy>>

CompileTransaction ==
    /\ ret = Pending
    /\ call.op = "compile_transaction"
    /\ ret' = compile_transaction(call.instructions, call.fee_payer,
                                  call.recent_blockhash)
    /\ UNCHANGED <<call, seed, key_copy>>

SignSolRawTransaction ==
    /\ ret = Pending
    /\ call.op = "sign_sol_raw_transaction"
    /\ ret' = sign_sol_raw_transaction(call.private_key, call.raw_tx)
    /\ key_copy' = sol_seed_copy(call.private_key)
    /\ UNCHANGED <<call, seed>>

EncodeCompactU16 ==
    /\ ret = Pending
    /\ call.op = "encode_compact_u16"
    /\ ret' = [status |-> "Ok", bytes |-> encode_compact_u16(call.value)]
    /\ UNCHANGED <<call, seed, key_copy>>

DecodeCompactU16 ==
    /\ ret = Pending
    /\ call.op = "decode_compact_u16"
    /\ ret' = decode_compact_u16(call.data)
    /\ UNCHANGED <<call, seed, key_copy>>

FindProgramAddress ==
    /\ ret = Pending
    /\ call.op = "find_program_address"
    /\ ret' = find_program_address(call.seeds, call.program_id, call.curve_points)
    /\ UNCHANGED <<call, seed, key_copy>>

SerializeMessage ==
    /\ ret = Pending
    /\ call.op = "serialize_message"
    /\ ret' = serialize_message(call.tx)
    /\ UNCHANGED <<call, seed, key_copy>>

SignTransaction ==
    /\ ret = Pending
    /\ call.op = "sign_transaction"
    /\ ret' = sign_transaction(call.tx, call.private_key)
    /\ key_copy' = IF serialize_message(call.tx).status = "Err"
                   THEN <<>>
                   ELSE sol_seed_copy(call.private_key)
    /\ UNCHANGED <<call, seed>>

EthSignTransaction ==
    /\ ret = Pending
    /\ call.op = "eth_sign_transaction"
    /\ ret' = eth_sign_transaction(call.tx, call.private_key)
    /\ key_copy' = IF encode_unsigned_tx(call.tx).status = "Err"
                   THEN <<>>
                   ELSE eth_key_bytes(call.private_key)
    /\ UNCHANGED <<call, seed>>

EthSignMessage ==
    /\ ret = Pending
    /\ call.op = "eth_sign_message"
    /\ ret' = eth_sign_message(call.message, call.private_key)
    /\ key_copy' = eth_key_bytes(call.private_key)
    /\ UNCHANGED <<call, seed>>

EncodeFunctionCall ==
    /\ ret = Pending
    /\ call.op = "encode_function_call"
    /\ ret' = [status |-> "Ok", data |-> encode_function_call(call.selector, call.params)]
    /\ UNCHANGED <<call, seed, key_copy>>

EncodeTransfer ==
    /\ ret = Pending
    /\ call.op = "encode_transfer"
    /\ ret' = encode_transfer(call.to, call.amount)
    /\ UNCHANGED <<call, seed, key_copy>>

\* The caller's UnsignedBtcTx is the unsigned_tx field of call.
BtcSignTransaction ==
    /\ ret = Pending
    /\ call.op = "btc_sign_transaction"
    /\ LET r == btc_sign_transaction(call.unsigned_tx, call.private_key)
       IN  /\ ret' = r.ret
           /\ call' = [call EXCEPT !.unsigned_tx = r.unsigned_tx]
    /\ UNCHANGED <<seed, key_copy>>

BuildTransfer ==
    /\ ret = Pending
    /\ call.op = "build_transfer"
    /\ ret' = build_transfer(call.chain_id, call.nonce, call.to, call.value_wei,
                             call.max_priority_fee, call.max_fee, call.gas_limit)
    /\ UNCHANGED <<call, seed, key_copy>>

BuildErc20Transfer ==
    /\ ret = Pending
    /\ call.op = "build_erc20_transfer"
    /\ ret' = build_erc20_transfer(call.chain_id, call.nonce, call.token_contract,
                                   call.to, call.amount, call.max_priority_fee,
                                   call.max_fee, call.gas_limit)
    /\ UNCHANGED <<call, seed, key_copy>>

\* derive_ed25519_key borrows the seed and leaves it as it is.
DeriveEd25519Key ==
    /\ ret = Pending
    /\ call.op = "derive_ed25519_key"
    /\ ret' = derive_ed25519_key(call.seed_bytes, call.account)
    /\ UNCHANGED <<call, seed, key_copy>>

\* select_utxos over the whole u64 range.
SelectUtxosU64 ==
    /\ ret = Pending
    /\ call.op = "select_utxos_u64"
    /\ ret' = WithOverflowChecks(call.overflow_checks,
                   select_utxos_overflows(call.utxos, call.target, call.fee_rate),
                   select_utxos(call.utxos, call.target, call.fee_rate))
    /\ UNCHANGED <<call, seed, key_copy>>

\* build_p2wpkh_transaction over the whole u64 range, with valid addresses:
\* its own operations repeat those of select_utxos with the final count.
BuildP2wpkhTransactionU64 ==
    /\ ret = Pending
    /\ call.op = "build_p2wpkh_transaction_u64"
    /\ ret' = WithOverflowChecks(call.overflow_checks,
                   select_utxos_overflows(call.utxos, call.amount, call.fee_rate),
                   build_p2wpkh_transaction(call.utxos, call.recipient, call.amount,
                                            call.change_address, call.fee_rate,
                                            call.network))
    /\ UNCHANGED <<call, seed, key_copy>>

\* build_transparent_transaction over the whole u64 range, with valid
\* addresses.
BuildTransparentTransactionU64 ==
    /\ ret = Pending
    /\ call.op = "build_transparent_transaction_u64"
    /\ ret' = WithOverflowChecks(call.overflow_checks,
                   zec_build_overflows(call.utxos, call.amount, call.fee_rate),
                   build_transparent_transaction(call.utxos, call.recipient,
                                                 call.amount, call.change_address,
                                                 call.fee_rate, call.network,
                                                 call.expiry_height))
    /\ UNCHANGED <<call, seed, key_copy>>

Next ==
    \/ SelectUtxos
    \/ BuildP2wpkhTransaction
    \/ BuildTransparentTransaction
    \/ CompileTransaction
    \/ SignSolRawTransaction
    \/ SignEthMessage
    \/ SignEthTransaction
    \/ SignSolTransfer
    \/ SignEthRawHash
    \/ SignErc20Transfer
    \/ SignSplTransfer
    \/ SignSolMessage
    \/ WalletSignSolRawTransaction
    \/ SignZecTransaction
    \/ SignBtcTransaction
    \/ EncodeCompactU16
    \/ DecodeCompactU16
    \/ FindProgramAddress
    \/ SerializeMessage
    \/ SignTransaction
    \/ EthSignTransaction
    \/ EncodeFunctionCall
    \/ EncodeTransfer
    \/ BtcSignTransaction
    \/ EthSignMessage
    \/ SelectUtxosU64
    \/ BuildP2wpkhTransactionU64
    \/ BuildTransparentTransactionU64
    \/ BuildTransfer
    \/ BuildErc20Transfer
    \/ DeriveEd25519Key

Spec == Init /\ [][Next]_vars

(***************************************************************************)
(* Properties                                                              *)
(***************************************************************************)
Returned == ret.status # "pending"

RECURSIVE SumSeq(_)
SumSeq(s) == IF s = <<>> THEN 0 ELSE Head(s) + SumSeq(Tail(s))

SelectedAmounts(sel) == [i \in 1..Len(sel) |-> sel[i].amount_sat]

\* A returned selection covers the target plus the 2-output fee, and its
\* total_sat is the sum of the selected amounts.
SelectionCovers ==
    /\ ret.total_sat = SumSeq(SelectedAmounts(ret.selected))
    /\ ret.total_sat >= call.target + estimate_fee(Len(ret.selected), 2, call.fee_rate)

IsBuild == call.op \in {"build_p2wpkh_transaction", "build_transparent_transaction"}
IsBtc == call.op = "build_p2wpkh_transaction"

BuiltInputAmounts ==
    IF IsBtc THEN [i \in 1..Len(ret.prevouts) |-> ret.prevouts[i].value]
    ELSE [i \in 1..Len(ret.tx.inputs) |-> ret.tx.inputs[i].amount]

BuiltOutputs ==
    IF IsBtc THEN [i \in 1..Len(ret.tx.output) |->
                      [value |-> ret.tx.output[i].value, pays |-> ret.tx.output[i].script_pubkey]]
    ELSE [i \in 1..Len(ret.tx.outputs) |->
             [value |-> ret.tx.outputs[i].amount, pays |-> ret.tx.outputs[i].script_pubkey]]

PaysTo(address) == IF IsBtc THEN address.script ELSE p2pkh_script(address.hash)

Fee(n, outs) ==
    IF IsBtc THEN estimate_fee(n, outs, call.fee_rate) ELSE zec_estimate_fee(n, outs, call.fee_rate)

\* C2: in every successful BTC or ZEC build, with total the sum of the input
\* amounts and fee2 the 2-output fee, there is a change output (second
\* output, value total - amount - fee2, paying the change address) iff
\* total - amount - fee2 > 546; otherwise the only output is the recipient
\* output of value amount.
C2_ChangeIffAboveDust ==
    (IsBuild /\ ret.status = "Ok") =>
        LET total  == SumSeq(BuiltInputAmounts)
            fee2   == Fee(Len(BuiltInputAmounts), 2)
            change == total - call.amount - fee2
            outs   == BuiltOutputs
        IN  /\ outs[1] = [value |-> call.amount, pays |-> PaysTo(call.recipient)]
            /\ IF change > 546
               THEN /\ Len(outs) = 2
                    /\ outs[2] = [value |-> change, pays |-> PaysTo(call.change_address)]
               ELSE Len(outs) = 1

C2_Witness ==
    /\ IsBtc
    /\ ret.status = "Ok"
    /\ Len(ret.tx.input) >= 2
    /\ Len(ret.tx.output) = 2
    /\ call.fee_rate > 0

\* The UTXO amounts of the call, largest first, and their running totals.
CallAmounts ==
    IF call.op = "select_utxos" \/ IsBtc
    THEN [i \in 1..Len(call.utxos) |-> call.utxos[i].amount_sat]
    ELSE [i \in 1..Len(call.utxos) |-> call.utxos[i].amount_zatoshi]

PrefixTotal(k) ==
    LET order == SortOrderDesc(Len(call.utxos), CallAmounts)
    IN  SumSeq([i \in 1..k |-> CallAmounts[order[i]]])

\* All UTXOs were accumulated and no prefix reached target + fee(k, 2).
Exhausted(target, fee(_, _)) ==
    /\ call.utxos # <<>>
    /\ \A k \in 1..Len(call.utxos) : PrefixTotal(k) < target + fee(k, 2)

EveryUtxoSelected ==
    /\ ret.status = "Ok"
    /\ IF call.op = "select_utxos" THEN Len(ret.selected) = Len(call.utxos)
       ELSE Len(ret.tx.inputs) = Len(call.utxos)

BtcFee(n, outs) == estimate_fee(n, outs, call.fee_rate)
ZecFee(n, outs) == zec_estimate_fee(n, outs, call.fee_rate)

DecidedByOneOutputFee(target, fee(_, _)) ==
    LET n     == Len(call.utxos)
        total == PrefixTotal(n)
    IN  IF total < target + fee(n, 1)
        THEN /\ ret.status = "Err"
             /\ ret.kind = "InsufficientFunds"
             /\ ret.needed = target + fee(n, 1)
             /\ ret.available = total
        ELSE EveryUtxoSelected

ZecBuildReachesSelection ==
    /\ call.op = "build_transparent_transaction"
    /\ address_to_pubkey_hash(call.recipient).status = "Ok"
    /\ address_to_pubkey_hash(call.change_address).status = "Ok"
    /\ \A i \in 1..Len(call.utxos) : call.utxos[i].txid_ok

\* C10: when all supplied UTXOs have been accumulated without reaching
\* target + fee(n, 2), select_utxos (BTC) and build_transparent_transaction
\* (ZEC) decide by the 1-output fee: InsufficientFunds{needed = target +
\* fee(n, 1), available = total} when total < target + fee(n, 1), success
\* with every UTXO selected otherwise.
C10_ExhaustedDecidedByOneOutputFee ==
    /\ (call.op = "select_utxos" /\ Returned /\ Exhausted(call.target, BtcFee))
          => DecidedByOneOutputFee(call.target, BtcFee)
    /\ (ZecBuildReachesSelection /\ Returned /\ Exhausted(call.amount, ZecFee))
          => DecidedByOneOutputFee(call.amount, ZecFee)

(***************************************************************************)
(* wallet-core signing entry points                                        *)
(***************************************************************************)
IsWalletSign == call \in WalletCalls /\ Returned

SeedZeroed == \A i \in 1..Len(seed) : seed[i] = 0

\* C3: when a wallet-core signing entry point returns, successfully or with
\* an error, the seed buffer it received has been zeroed.
C3_SeedZeroedOnEveryExit ==
    IsWalletSign => SeedZeroed

(***************************************************************************)
(* sign_sol_raw_transaction: the wire layout of the call's raw_tx          *)
(***************************************************************************)
IsRawSign == call.op = "sign_sol_raw_transaction" /\ Returned

WalletPubkey == verifying_key(call.private_key)

DeclaredSigs == decode_compact_u16(call.raw_tx)

\* Offsets (0-based) of the signature region and of the message.
SigsStart == DeclaredSigs.consumed
MessageStart == SigsStart + DeclaredSigs.value * SIGNATURE_BYTES
Message == SliceFrom(call.raw_tx, MessageStart)
MessageAccounts == decode_compact_u16(SliceFrom(Message, 3))
MessageKey(i) ==
    Slice(Message, 3 + MessageAccounts.consumed + i * PUBKEY_BYTES,
          3 + MessageAccounts.consumed + (i + 1) * PUBKEY_BYTES)

\* raw_tx holds a signature count, that many slots, a header and all the
\* account keys the message declares.
WellFormedRawTx ==
    /\ DeclaredSigs.status = "Ok"
    /\ MessageStart + 4 <= Len(call.raw_tx)
    /\ MessageAccounts.status = "Ok"
    /\ 3 + MessageAccounts.consumed + MessageAccounts.value * PUBKEY_BYTES
           <= Len(Message)

\* 0-based positions of the wallet's public key among the account keys.
WalletKeyPositions ==
    {i \in 0..(MessageAccounts.value - 1) : MessageKey(i) = WalletPubkey}

WalletAmongSigners ==
    /\ WellFormedRawTx
    /\ \E i \in WalletKeyPositions : i < Message[1]

\* C4: on success the output has the length of raw_tx and differs from it at
\* most in the 64 bytes of the slot whose index is the position of the
\* wallet's key among the account keys, and that slot is one of the declared
\* signature slots (so the message and the other slots are unchanged).
C4_OnlyOwnSlotChanges ==
    (IsRawSign /\ ret.status = "Ok") =>
        /\ Len(ret.signed_tx) = Len(call.raw_tx)
        /\ \E k \in WalletKeyPositions :
               /\ \A i \in WalletKeyPositions : k <= i
               /\ k < DeclaredSigs.value
               /\ \A b \in 1..Len(call.raw_tx) :
                      (b <= SigsStart + k * SIGNATURE_BYTES
                           \/ b > SigsStart + (k + 1) * SIGNATURE_BYTES)
                          => ret.signed_tx[b] = call.raw_tx[b]
        /\ SliceFrom(ret.signed_tx, MessageStart) = Message

\* C5: when the wallet's public key is not among the first
\* num_required_signatures account keys of the message, the call fails with
\* an error and returns no transaction bytes.
C5_AbsentSignerFails ==
    (IsRawSign /\ ~WalletAmongSigners) => ret.status = "Err"

\* The wallet's key is an account key of a well-formed transaction, but only
\* among the non-signers.
C5_Witness ==
    /\ IsRawSign
    /\ WellFormedRawTx
    /\ WalletKeyPositions # {}
    /\ \A i \in WalletKeyPositions : i >= Message[1]
    /\ Message[1] >= 1
    /\ ret.status = "Err"
    /\ ret.kind = "SigningError"

(***************************************************************************)
(* compile_transaction: what the call referenced                           *)
(***************************************************************************)
IsCompile == call.op = "compile_transaction" /\ Returned

Range(s) == {s[i] : i \in 1..Len(s)}

\* The account references of the call's instructions, as (instruction,
\* position) pairs.
AccountRefs ==
    UNION {{<<i, j>> : j \in 1..Len(call.instructions[i].accounts)} :
              i \in 1..Len(call.instructions)}

Meta(r) == call.instructions[r[1]].accounts[r[2]]

ProgramIds == {call.instructions[i].program_id : i \in 1..Len(call.instructions)}

ReferencedKeys ==
    {call.fee_payer} \cup ProgramIds \cup {Meta(r).pubkey : r \in AccountRefs}

\* OR of the flags of all occurrences of key k.
SignerAnywhere(k) ==
    k = call.fee_payer \/ \E r \in AccountRefs : Meta(r).pubkey = k /\ Meta(r).is_signer

WritableAnywhere(k) ==
    k = call.fee_payer \/ \E r \in AccountRefs : Meta(r).pubkey = k /\ Meta(r).is_writable

\* Rank of a key in the canonical order, from the OR-ed flags.
GroupOf(k) ==
    IF SignerAnywhere(k) THEN (IF WritableAnywhere(k) THEN 0 ELSE 1)
    ELSE (IF WritableAnywhere(k) THEN 2 ELSE 3)

\* C6: compile_transaction puts the fee payer at account_keys[0] and counts
\* it as a writable signer (at least one required signature, and at least
\* one of the signers is not read-only), whatever the instructions say
\* about it.
C6_FeePayerFirstWritableSigner ==
    IsCompile =>
        /\ ret.status = "Ok"
        /\ ret.account_keys[1] = call.fee_payer
        /\ ret.num_required_signatures >= 1
        /\ ret.num_required_signatures - ret.num_readonly_signed >= 1

\* The instructions reference the fee payer, and only as a read-only
\* non-signer account.
C6_Witness ==
    /\ IsCompile
    /\ ret.status = "Ok"
    /\ \E r \in AccountRefs : Meta(r).pubkey = call.fee_payer
    /\ \A r \in AccountRefs :
           Meta(r).pubkey = call.fee_payer =>
               ~Meta(r).is_signer /\ ~Meta(r).is_writable
    /\ ret.account_keys[1] = call.fee_payer

\* C7: account_keys is grouped as writable signers, read-only signers,
\* writable non-signers, read-only non-signers, in this order, and the three
\* header counts are the sizes of the signer, read-only signer and read-only
\* non-signer groups.
C7_CanonicalLayoutAndHeader ==
    (IsCompile /\ ret.status = "Ok") =>
        /\ \A p \in 1..(Len(ret.account_keys) - 1) :
               GroupOf(ret.account_keys[p]) <= GroupOf(ret.account_keys[p + 1])
        /\ ret.num_required_signatures =
               Cardinality({k \in Range(ret.account_keys) : GroupOf(k) \in {0, 1}})
        /\ ret.num_readonly_signed =
               Cardinality({k \in Range(ret.account_keys) : GroupOf(k) = 1})
        /\ ret.num_readonly_unsigned =
               Cardinality({k \in Range(ret.account_keys) : GroupOf(k) = 3})
        /\ \A p \in 1..Len(ret.account_keys) :
               p <= ret.num_required_signatures
                   <=> SignerAnywhere(ret.account_keys[p])

\* All four groups are populated.
C7_Witness ==
    /\ IsCompile
    /\ ret.status = "Ok"
    /\ \A g \in 0..3 : \E k \in Range(ret.account_keys) : GroupOf(k) = g
    /\ ret.num_readonly_signed >= 1
    /\ ret.num_readonly_unsigned >= 1

\* 0-based position p lies in the signer part / a writable part of the layout
\* that the header of the returned transaction declares.
SignerSlot(p) == p < ret.num_required_signatures

WritableSlot(p) ==
    \/ p < ret.num_required_signatures - ret.num_readonly_signed
    \/ /\ p >= ret.num_required_signatures
       /\ p < Len(ret.account_keys) - ret.num_readonly_unsigned

\* A System-Program style transfer whose source, destination and fee payer
\* are the same key.
SelfTransfer ==
    /\ Len(call.instructions) = 1
    /\ call.instructions[1].program_id # call.fee_payer
    /\ Len(call.instructions[1].accounts) = 2
    /\ \A j \in 1..2 : call.instructions[1].accounts[j].pubkey = call.fee_payer

\* C8: every distinct key among the fee payer, the instruction accounts and
\* the program ids appears exactly once in account_keys, with the signer and
\* writable flags that are the OR over all its occurrences; a self-transfer
\* has exactly two account keys.
C8_DedupWithOrFlags ==
    (IsCompile /\ ret.status = "Ok") =>
        /\ Range(ret.account_keys) = ReferencedKeys
        /\ Len(ret.account_keys) = Cardinality(ReferencedKeys)
        /\ \A p \in 1..Len(ret.account_keys) :
               /\ SignerSlot(p - 1) <=> SignerAnywhere(ret.account_keys[p])
               /\ WritableSlot(p - 1) <=> WritableAnywhere(ret.account_keys[p])
        /\ SelfTransfer => Len(ret.account_keys) = 2

\* A key other than the fee payer is referenced twice, once as a read-only
\* signer and once as a writable non-signer, and is compiled to one entry.
C8_Witness ==
    /\ IsCompile
    /\ ret.status = "Ok"
    /\ \E r \in AccountRefs, t \in AccountRefs :
           /\ r # t
           /\ Meta(r).pubkey = Meta(t).pubkey
           /\ Meta(r).pubkey # call.fee_payer
           /\ Meta(r).is_signer /\ ~Meta(r).is_writable
           /\ ~Meta(t).is_signer /\ Meta(t).is_writable
           /\ Cardinality({p \in 1..Len(ret.account_keys) :
                              ret.account_keys[p] = Meta(r).pubkey}) = 1

\* C9: on success every compiled index resolves to the key it replaced, and
\* the instruction data, the order of the instructions and the order of the
\* account references are those of the call.
C9_IndicesResolve ==
    (IsCompile /\ ret.status = "Ok") =>
        /\ Len(ret.compiled_instructions) = Len(call.instructions)
        /\ \A i \in 1..Len(call.instructions) :
               LET ix == call.instructions[i]
                   cx == ret.compiled_instructions[i]
               IN  /\ cx.program_id_index < Len(ret.account_keys)
                   /\ ret.account_keys[cx.program_id_index + 1] = ix.program_id
                   /\ Len(cx.account_indices) = Len(ix.accounts)
                   /\ \A j \in 1..Len(ix.accounts) :
                          /\ cx.account_indices[j] < Len(ret.account_keys)
                          /\ ret.account_keys[cx.account_indices[j] + 1]
                                 = ix.accounts[j].pubkey
                   /\ cx.data = ix.data

(***************************************************************************)
(* chain-btc: the greedy selection                                         *)
(***************************************************************************)

\* The stable descending order of the supplied UTXOs, characterised rather
\* than computed: the one permutation that puts larger amounts first and
\* keeps equal amounts in input order.
StableDescending ==
    LET n == Len(call.utxos)
    IN  CHOOSE p \in [1..n -> 1..n] :
            /\ \A i, j \in 1..n : i # j => p[i] # p[j]
            /\ \A i, j \in 1..n : i < j =>
                   \/ call.utxos[p[i]].amount_sat > call.utxos[p[j]].amount_sat
                   \/ /\ call.utxos[p[i]].amount_sat = call.utxos[p[j]].amount_sat
                      /\ p[i] < p[j]

StableSorted == [i \in 1..Len(call.utxos) |-> call.utxos[StableDescending[i]]]

SortedPrefixSum(k) == SumSeq([i \in 1..k |-> StableSorted[i].amount_sat])

PrefixCovers(k) ==
    SortedPrefixSum(k) >= call.target + estimate_fee(k, 2, call.fee_rate)

\* C11: on success the UTXOs selected by select_utxos are exactly the
\* shortest prefix of the supplied UTXOs stably sorted by amount descending
\* whose running total is >= target + estimate_fee(prefixLength, 2, rate):
\* none is skipped, none is added after the condition first holds, and
\* total_sat is the sum of the selected amounts.
C11_ShortestCoveringPrefix ==
    (call.op = "select_utxos" /\ ret.status = "Ok") =>
        \E k \in 1..Len(call.utxos) :
            /\ PrefixCovers(k)
            /\ \A j \in 1..(k - 1) : ~PrefixCovers(j)
            /\ ret.selected = SubSeq(StableSorted, 1, k)
            /\ ret.total_sat = SumSeq(SelectedAmounts(ret.selected))

\* A success that needed two of three UTXOs, where the input was not sorted
\* and two of the selected UTXOs have the same amount.
C11_Witness ==
    /\ call.op = "select_utxos"
    /\ ret.status = "Ok"
    /\ Len(call.utxos) = 3
    /\ Len(ret.selected) = 2
    /\ call.utxos[1].amount_sat < call.utxos[2].amount_sat
    /\ ret.selected[1].amount_sat = ret.selected[2].amount_sat

(***************************************************************************)
(* chain-sol: compact-u16                                                  *)
(***************************************************************************)

CompactLength(v) == IF v <= 127 THEN 1 ELSE IF v <= 16383 THEN 2 ELSE 3

\* C12: for every u16 value v, decode_compact_u16(encode_compact_u16(v))
\* returns (v, n) where n is the length of the encoding, and the encoding
\* is 1 byte for v <= 0x7F, 2 bytes for v <= 0x3FFF and 3 bytes otherwise.
C12_CompactU16RoundTrip ==
    (call.op = "encode_compact_u16" /\ Returned) =>
        LET decoded == decode_compact_u16(ret.bytes)
        IN  /\ decoded.status = "Ok"
            /\ decoded.value = call.value
            /\ decoded.consumed = Len(ret.bytes)
            /\ Len(ret.bytes) = CompactLength(call.value)

\* The largest u16 value has been encoded, in three bytes.
C12_Witness ==
    /\ call.op = "encode_compact_u16"
    /\ call.value = U16_MAX
    /\ Returned
    /\ ret.bytes = <<255, 255, 3>>

(***************************************************************************)
(* chain-sol: find_program_address                                         *)
(***************************************************************************)

\* The digest the search computes for a bump, and whether it is a curve
\* point, read off the call.
CallCandidate(bump) == Candidate(call.seeds[1], call.seeds[3], bump)
CandidateOnCurve(bump) == CallCandidate(bump) \in call.curve_points

\* C13: find_program_address returns the candidate hash of the largest bump
\* in 255..0 whose hash is not a valid curve point, together with that
\* bump; the returned address is never a curve point; the call fails only
\* if all 256 candidates are curve points.
C13_LargestOffCurveBump ==
    (call.op = "find_program_address" /\ Returned) =>
        IF \A b \in 0..255 : CandidateOnCurve(b)
        THEN ret.status = "Err"
        ELSE /\ ret.status = "Ok"
             /\ ret.bump \in 0..255
             /\ ~CandidateOnCurve(ret.bump)
             /\ \A b \in (ret.bump + 1)..255 : CandidateOnCurve(b)
             /\ ret.address = CallCandidate(ret.bump)
             /\ ret.address \notin call.curve_points

\* The search skipped curve points at the top and found a bump below 255
\* while a smaller bump was off the curve as well.
C13_Witness ==
    /\ call.op = "find_program_address"
    /\ ret.status = "Ok"
    /\ ret.bump < 255
    /\ \E b \in 0..(ret.bump - 1) : ~CandidateOnCurve(b)

(***************************************************************************)
(* chain-sol: sign_sol_raw_transaction never aborts                        *)
(***************************************************************************)

\* C14: for every byte string raw_tx, sign_sol_raw_transaction returns
\* either Ok or a typed error and never aborts: every index and slice it
\* takes into raw_tx, the message and the output buffer is within bounds.
C14_OkOrTypedError ==
    (call.op = "sign_sol_raw_transaction" /\ Returned) =>
        \/ ret.status = "Ok" /\ Len(ret.signed_tx) = Len(call.raw_tx)
        \/ /\ ret.status = "Err"
           /\ ret.kind \in {"SerializationError", "TransactionBuildError", "SigningError"}

(***************************************************************************)
(* chain-sol: the two signing paths                                        *)
(***************************************************************************)

\* The wire bytes with the first signature slot zeroed.
ZeroedSlot(wire) ==
    [i \in 1..Len(wire) |-> IF i > 1 /\ i <= 1 + SIGNATURE_BYTES THEN 0 ELSE wire[i]]

\* The call signs a transfer built by build_sol_transfer with the key of
\* its fee payer.
SignsOwnTransfer ==
    /\ call.op = "sign_transaction"
    /\ call.tx \in BuiltTransfers
    /\ call.tx.account_keys[1] = verifying_key(call.private_key)

\* C15: for every transaction built by build_sol_transfer whose fee payer
\* is the public key of private_key, taking sign_transaction's wire output,
\* zeroing its signature slot and passing it to sign_sol_raw_transaction
\* with the same key returns exactly sign_transaction's wire output.
C15_SigningPathsAgree ==
    (SignsOwnTransfer /\ Returned) =>
        /\ ret.status = "Ok"
        /\ sign_sol_raw_transaction(call.private_key, ZeroedSlot(ret.wire))
               = [status |-> "Ok", signed_tx |-> ret.wire]

\* A transfer has been signed by its fee payer, and the zeroed wire bytes
\* differ from the signed ones.
C15_Witness ==
    /\ SignsOwnTransfer
    /\ ret.status = "Ok"
    /\ ZeroedSlot(ret.wire) # ret.wire
    /\ Len(ret.wire) > 1 + SIGNATURE_BYTES + 3 + 1 + 3 * PUBKEY_BYTES

(***************************************************************************)
(* chain-sol: the layout of the serialized message                         *)
(***************************************************************************)

\* The stated layout, read back from the returned bytes at computed
\* offsets (0-based).
KeyCount == Len(call.tx.account_keys)
BlockhashOffset == 3 + CompactLength(KeyCount) + PUBKEY_BYTES * KeyCount
InstructionsOffset == BlockhashOffset + 32

InstructionSize(ix) ==
    1 + CompactLength(Len(ix.account_indices)) + Len(ix.account_indices)
      + CompactLength(Len(ix.data)) + Len(ix.data)

InstructionOffset(k) ==
    InstructionsOffset + CompactLength(Len(call.tx.compiled_instructions))
        + SumSeq([i \in 1..(k - 1) |-> InstructionSize(call.tx.compiled_instructions[i])])

\* The bytes at offset `at` are the compact-u16 prefix for `count`.
PrefixAt(bytes, at, count) ==
    decode_compact_u16(SliceFrom(bytes, at))
        = [status |-> "Ok", value |-> count, consumed |-> CompactLength(count)]

InstructionAt(bytes, at, ix) ==
    LET indices_at == at + 1 + CompactLength(Len(ix.account_indices))
        data_at    == indices_at + Len(ix.account_indices) + CompactLength(Len(ix.data))
    IN  /\ bytes[at + 1] = ix.program_id_index
        /\ PrefixAt(bytes, at + 1, Len(ix.account_indices))
        /\ Slice(bytes, indices_at, indices_at + Len(ix.account_indices)) = ix.account_indices
        /\ PrefixAt(bytes, indices_at + Len(ix.account_indices), Len(ix.data))
        /\ Slice(bytes, data_at, data_at + Len(ix.data)) = ix.data

\* C20: serialize_message lays the message out as the 3 header bytes,
\* compact-u16(number of account keys), the 32-byte keys in account_keys
\* order, the 32-byte recent blockhash, compact-u16(number of
\* instructions), then per instruction program_id_index, compact-u16(number
\* of account indices), the indices, compact-u16(data length), the data;
\* every length prefix equals the true element count, so the blockhash sits
\* at offset 3 + len(compact-u16(n)) + 32 * n for n account keys.
C20_MessageLayout ==
    (call.op = "serialize_message" /\ Returned) =>
        LET tx == call.tx
            m  == Len(tx.compiled_instructions)
        IN  /\ ret.status = "Ok"
            /\ Slice(ret.bytes, 0, 3) = <<tx.num_required_signatures,
                                          tx.num_readonly_signed,
                                          tx.num_readonly_unsigned>>
            /\ PrefixAt(ret.bytes, 3, KeyCount)
            /\ \A i \in 0..(KeyCount - 1) :
                   Slice(ret.bytes,
                         3 + CompactLength(KeyCount) + PUBKEY_BYTES * i,
                         3 + CompactLength(KeyCount) + PUBKEY_BYTES * (i + 1))
                       = tx.account_keys[i + 1]
            /\ Slice(ret.bytes, BlockhashOffset, BlockhashOffset + 32) = tx.recent_blockhash
            /\ PrefixAt(ret.bytes, InstructionsOffset, m)
            /\ \A k \in 1..m :
                   InstructionAt(ret.bytes, InstructionOffset(k), tx.compiled_instructions[k])
            /\ Len(ret.bytes) = InstructionOffset(m + 1)

\* A message with enough account keys for a two-byte key count has been
\* serialized, with an instruction naming that many accounts.
C20_Witness ==
    /\ call.op = "serialize_message"
    /\ ret.status = "Ok"
    /\ KeyCount > 127
    /\ BlockhashOffset = 3 + 2 + PUBKEY_BYTES * KeyCount
    /\ \E k \in 1..Len(call.tx.compiled_instructions) :
           Len(call.tx.compiled_instructions[k].account_indices) > 127

(***************************************************************************)
(* chain-btc: address validation comes first                               *)
(***************************************************************************)

\* The address encoding a requested network accepts: mainnet addresses on
\* Mainnet, test addresses (shared by testnet and signet) otherwise.
RequestedEncoding == IF call.network = "Mainnet" THEN "Bitcoin" ELSE "Testnet"

BadBtcAddress(addr) == ~addr.well_formed \/ addr.net # RequestedEncoding

\* C16: build_p2wpkh_transaction returns InvalidAddress whenever the
\* recipient or the change address is malformed or belongs to a network
\* other than the requested one, for every UTXO list, amount and fee rate,
\* also when the UTXO list is empty or the funds are insufficient.
C16_InvalidAddressFirst ==
    (/\ call.op = "build_p2wpkh_transaction"
     /\ Returned
     /\ BadBtcAddress(call.recipient) \/ BadBtcAddress(call.change_address)) =>
        ret.status = "Err" /\ ret.kind = "InvalidAddress"

\* A change address of another network was reported although the UTXO list
\* was empty.
C16_Witness ==
    /\ call.op = "build_p2wpkh_transaction"
    /\ call.utxos = <<>>
    /\ ~BadBtcAddress(call.recipient)
    /\ call.change_address.well_formed
    /\ call.change_address.net # RequestedEncoding
    /\ ret.status = "Err"
    /\ ret.kind = "InvalidAddress"

(***************************************************************************)
(* chain-btc, chain-zec: value conservation                                *)
(***************************************************************************)

InputSum == SumSeq(BuiltInputAmounts)
OutputSum == SumSeq([i \in 1..Len(BuiltOutputs) |-> BuiltOutputs[i].value])
ImpliedFee == InputSum - OutputSum

\* C17: in every successful BTC and ZEC build the first output pays exactly
\* the requested amount, the sum of the outputs never exceeds the sum of
\* the inputs, and the implied fee (inputs minus outputs) is >=
\* estimate_fee(numInputs, numOutputs, rate) of the built transaction; with
\* a change output the implied fee equals estimate_fee(numInputs, 2, rate)
\* exactly, without one the whole remainder total - amount is the fee.
C17_ValueConserved ==
    (IsBuild /\ ret.status = "Ok") =>
        LET n == Len(BuiltInputAmounts)
            k == Len(BuiltOutputs)
        IN  /\ k \in {1, 2}
            /\ BuiltOutputs[1].value = call.amount
            /\ OutputSum <= InputSum
            /\ ImpliedFee >= Fee(n, k)
            /\ k = 2 => ImpliedFee = Fee(n, 2)
            /\ k = 1 => ImpliedFee = InputSum - call.amount

\* A ZEC build without change whose fee lies between the 1-output and the
\* 2-output estimate.
C17_Witness ==
    /\ call.op = "build_transparent_transaction"
    /\ ret.status = "Ok"
    /\ Len(BuiltOutputs) = 1
    /\ ImpliedFee > 0
    /\ ImpliedFee < Fee(Len(BuiltInputAmounts), 2)

(***************************************************************************)
(* chain-eth: what is signed is what is broadcast                          *)
(***************************************************************************)

\* An RLP reader, independent of the encoder: the value of big-endian
\* bytes, the size of the header of the item that starts a byte string, the
\* size of its body, and the items of a list body.
RECURSIVE BeValue(_)
BeValue(bytes) ==
    IF bytes = <<>> THEN 0
    ELSE BeValue(SubSeq(bytes, 1, Len(bytes) - 1)) * U8_RANGE + bytes[Len(bytes)]

ItemHeaderSize(bytes) ==
    LET b == bytes[1]
    IN  IF b < 128 THEN 0
        ELSE IF b <= 183 THEN 1
        ELSE IF b <= 191 THEN 1 + (b - 183)
        ELSE IF b <= 247 THEN 1
        ELSE 1 + (b - 247)

ItemBodySize(bytes) ==
    LET b == bytes[1]
    IN  IF b < 128 THEN 1
        ELSE IF b <= 183 THEN b - 128
        ELSE IF b <= 191 THEN BeValue(SubSeq(bytes, 2, 1 + (b - 183)))
        ELSE IF b <= 247 THEN b - 192
        ELSE BeValue(SubSeq(bytes, 2, 1 + (b - 247)))

ItemSize(bytes) == ItemHeaderSize(bytes) + ItemBodySize(bytes)
ItemBody(item) == SubSeq(item, ItemHeaderSize(item) + 1, Len(item))
IsList(item) == item[1] >= 192

RECURSIVE RlpItems(_)
RlpItems(bytes) ==
    IF bytes = <<>> THEN <<>>
    ELSE <<SubSeq(bytes, 1, ItemSize(bytes))>>
             \o RlpItems(SubSeq(bytes, ItemSize(bytes) + 1, Len(bytes)))

\* The fields of a typed transaction: 0x02, then one RLP list that spans
\* the rest of the bytes.
IsTypedList(bytes) ==
    /\ Len(bytes) >= 2
    /\ bytes[1] = 2
    /\ IsList(Tail(bytes))
    /\ ItemSize(Tail(bytes)) = Len(bytes) - 1
TypedFields(bytes) == RlpItems(ItemBody(Tail(bytes)))

\* A 32-byte big-endian number from its stripped bytes.
PadTo32(bytes) == [i \in 1..32 |-> IF i <= 32 - Len(bytes) THEN 0 ELSE bytes[i - (32 - Len(bytes))]]

IsEthSign == call.op = "eth_sign_transaction" /\ ret.status = "Ok"

\* C18: raw_tx is 0x02 followed by the RLP list whose first nine fields
\* (chain_id, nonce, max_priority_fee_per_gas, max_fee_per_gas, gas_limit,
\* to, value, data, empty access list) are, in value and order, exactly the
\* nine fields of the payload returned by encode_unsigned_tx for the same
\* transaction, followed by y_parity, r, s; the signed digest is
\* Keccak-256 of that unsigned payload and tx_hash is "0x" plus the hex of
\* Keccak-256(raw_tx).
C18_SignedIsBroadcast ==
    IsEthSign =>
        LET tx        == call.tx
            unsigned  == encode_unsigned_tx(tx).payload
            ufields   == TypedFields(unsigned)
            sfields   == TypedFields(ret.raw_tx)
            signature == sign_prehash(call.private_key, Keccak256(unsigned))
        IN  /\ IsTypedList(unsigned)
            /\ IsTypedList(ret.raw_tx)
            /\ Len(ufields) = 9
            /\ Len(sfields) = 12
            /\ SubSeq(sfields, 1, 9) = ufields
            /\ \A f \in 1..8 : ~IsList(ufields[f])
            /\ BeValue(ItemBody(ufields[1])) = tx.chain_id
            /\ BeValue(ItemBody(ufields[2])) = tx.nonce
            /\ BeValue(ItemBody(ufields[3])) = tx.max_priority_fee_per_gas
            /\ BeValue(ItemBody(ufields[4])) = tx.max_fee_per_gas
            /\ BeValue(ItemBody(ufields[5])) = tx.gas_limit
            /\ ItemBody(ufields[6]) = hex_decode(SubSeq(tx.to, 3, 42))
            /\ BeValue(ItemBody(ufields[7])) = tx.value
            /\ ItemBody(ufields[8]) = tx.data
            /\ ufields[9] = <<192>>
            /\ \A f \in 10..12 : ~IsList(sfields[f])
            /\ BeValue(ItemBody(sfields[10])) = (IF signature.is_y_odd THEN 1 ELSE 0)
            /\ PadTo32(ItemBody(sfields[11])) = signature.r
            /\ PadTo32(ItemBody(sfields[12])) = signature.s
            /\ ret.tx_hash = <<"0", "x">> \o hex_encode(Keccak256(ret.raw_tx))

\* A transaction with calldata has been signed, its r begins with a zero
\* byte, and the signed bytes are longer than the unsigned payload.
C18_Witness ==
    /\ IsEthSign
    /\ Len(call.tx.data) > 55
    /\ call.tx.nonce > 127
    /\ sign_prehash(call.private_key, Keccak256(encode_unsigned_tx(call.tx).payload)).r[1] = 0
    /\ Len(ret.raw_tx) > Len(encode_unsigned_tx(call.tx).payload) + 64

(***************************************************************************)
(* chain-eth: the calldata layout                                          *)
(***************************************************************************)

Zeros(n) == [i \in 1..n |-> 0]

\* The word the layout prescribes for a parameter.
AbiWord(param) ==
    IF param.kind = "Address" THEN Zeros(12) \o param.bytes
    ELSE IF param.kind = "Uint256" THEN param.bytes
    ELSE IF Len(param.bytes) >= 32 THEN SubSeq(param.bytes, 1, 32)
    ELSE param.bytes \o Zeros(32 - Len(param.bytes))

\* C19: encode_function_call(selector, params) returns exactly 4 + 32 *
\* len(params) bytes: the selector followed by one 32-byte word per
\* parameter in order (Address: 12 zero bytes then the 20 address bytes;
\* Uint256: the 32 bytes unchanged; Bytes: the first min(len, 32) bytes
\* followed by zero padding).  ERC-20 transfer calldata is selector
\* a9059cbb, the padded recipient, the amount: 68 bytes.
C19_CalldataLayout ==
    /\ (call.op = "encode_function_call" /\ Returned) =>
           /\ Len(ret.data) = 4 + 32 * Len(call.params)
           /\ Slice(ret.data, 0, 4) = call.selector
           /\ \A i \in 1..Len(call.params) :
                  Slice(ret.data, 4 + 32 * (i - 1), 4 + 32 * i) = AbiWord(call.params[i])
    /\ (call.op = "encode_transfer" /\ ret.status = "Ok") =>
           /\ Len(ret.data) = 68
           /\ ret.data = <<169, 5, 156, 187>> \o Zeros(12)
                             \o hex_decode(SubSeq(call.to, 3, 42)) \o call.amount

\* A call with an address parameter and a Bytes parameter longer than a
\* word has been encoded.
C19_Witness ==
    /\ call.op = "encode_function_call"
    /\ Returned
    /\ \E i, j \in 1..Len(call.params) :
           /\ call.params[i].kind = "Address"
           /\ call.params[j].kind = "Bytes"
           /\ Len(call.params[j].bytes) > 32

(***************************************************************************)
(* chain-sol: the wire bytes of sign_transaction                           *)
(***************************************************************************)

IsSolSign == call.op = "sign_transaction" /\ Returned

\* The serialized message of the call's transaction.
CallMessage == serialize_message(call.tx).bytes

\* C21: chain_sol sign_transaction returns the single byte 0x01, then the
\* 64-byte Ed25519 signature of serialize_message(tx) made with
\* private_key, then serialize_message(tx) verbatim: the output length is
\* 65 + len(message) and bytes 65.. equal the message.
C21_WireIsCountSignatureMessage ==
    IsSolSign =>
        /\ ret.status = "Ok"
        /\ Len(ret.wire) = 65 + Len(CallMessage)
        /\ ret.wire[1] = 1
        /\ Slice(ret.wire, 1, 65) = ed25519_sign(call.private_key, CallMessage)
        /\ SliceFrom(ret.wire, 65) = CallMessage

\* A two-instruction transaction has been signed.
C21_Witness ==
    /\ IsSolSign
    /\ ret.status = "Ok"
    /\ Len(call.tx.compiled_instructions) = 2
    /\ Len(ret.wire) > 65 + 3 + 1 + 32 + 32

(***************************************************************************)
(* chain-btc: the unsigned transaction carries no signature                *)
(***************************************************************************)

\* The supplied UTXO an input spends (UTXOs of a call have distinct txids).
SpentUtxo(input) ==
    CHOOSE u \in Range(call.utxos) : u.txid = input.previous_output.txid

\* Every input of the built transaction is unsigned and prevouts lists,
\* in input order, the amount and script of the UTXO each input spends.
BuiltUnsigned ==
    (call.op = "build_p2wpkh_transaction" /\ ret.status = "Ok") =>
        /\ Len(ret.prevouts) = Len(ret.tx.input)
        /\ \A i \in 1..Len(ret.tx.input) :
               /\ ret.tx.input[i].script_sig = <<>>
               /\ ret.tx.input[i].witness = <<>>
               /\ \E u \in Range(call.utxos) : u.txid = ret.tx.input[i].previous_output.txid
               /\ ret.prevouts[i] =
                      [value |-> SpentUtxo(ret.tx.input[i]).amount_sat,
                       script_pubkey |-> SpentUtxo(ret.tx.input[i]).script_pubkey]

\* A step of chain-btc sign_transaction leaves the caller's UnsignedBtcTx
\* as it was.
SigningKeepsUnsignedTx ==
    call.op = "btc_sign_transaction" => call'.unsigned_tx = call.unsigned_tx

\* C22: build_p2wpkh_transaction returns a transaction in which every
\* input has an empty scriptSig and an empty witness and prevouts has one
\* entry per input in the same order, and chain_btc sign_transaction leaves
\* the UnsignedBtcTx it was given unchanged (the witnesses are written only
\* into a private copy that is serialized and returned).
C22_UnsignedStaysUnsigned == [](BuiltUnsigned) /\ [][SigningKeepsUnsignedTx]_vars

\* A transaction with several inputs has been signed: the returned bytes
\* carry a witness for every input and the caller's transaction carries
\* none.
C22_Witness ==
    /\ call.op = "btc_sign_transaction"
    /\ ret.status = "Ok"
    /\ Len(call.unsigned_tx.tx.input) > 1
    /\ \A i \in 1..Len(call.unsigned_tx.tx.input) :
           /\ Len(ret.bytes.consensus_serialize.input[i].witness) = 2
           /\ call.unsigned_tx.tx.input[i].witness = <<>>

(***************************************************************************)
(* C23  local private-key copies of the chain engines                      *)
(***************************************************************************)
IsZeroed(bytes) == \A i \in 1..Len(bytes) : bytes[i] = 0

KeyCopyingOps ==
    {"eth_sign_transaction", "eth_sign_message", "sign_transaction",
     "sign_sol_raw_transaction"}

\* C23: when chain_eth sign_transaction or sign_message, or chain_sol
\* sign_transaction or sign_sol_raw_transaction, has returned (with Ok or with
\* any error, the InvalidPrivateKey error included), the local copy it made
\* of the private key holds zero bytes only.
C23_KeyCopyZeroedOnEveryExit ==
    (Returned /\ call.op \in KeyCopyingOps) => IsZeroed(key_copy)

(***************************************************************************)
(* C24  UTXO arithmetic over the whole u64 range                           *)
(***************************************************************************)
WideOps ==
    {"select_utxos_u64", "build_p2wpkh_transaction_u64",
     "build_transparent_transaction_u64"}

\* The amounts a successful call selected, and their sum in unbounded
\* arithmetic.
WideSelectedAmounts ==
    CASE call.op = "select_utxos_u64" ->
             [i \in 1..Len(ret.selected) |-> ret.selected[i].amount_sat]
      [] call.op = "build_p2wpkh_transaction_u64" ->
             [i \in 1..Len(ret.prevouts) |-> ret.prevouts[i].value]
      [] call.op = "build_transparent_transaction_u64" ->
             [i \in 1..Len(ret.tx.inputs) |-> ret.tx.inputs[i].amount]

\* The fee of the result in unbounded arithmetic: select_utxos prices two
\* outputs, a build prices the outputs it made.
WideTrueFee ==
    LET n == Len(WideSelectedAmounts)
    IN  CASE call.op = "select_utxos_u64" ->
                 (TX_OVERHEAD_VBYTES + n * P2WPKH_INPUT_VBYTES + 2 * OUTPUT_VBYTES)
                     * call.fee_rate
          [] call.op = "build_p2wpkh_transaction_u64" ->
                 (TX_OVERHEAD_VBYTES + n * P2WPKH_INPUT_VBYTES
                      + Len(ret.tx.output) * OUTPUT_VBYTES) * call.fee_rate
          [] call.op = "build_transparent_transaction_u64" ->
                 (TX_OVERHEAD_BYTES + n * INPUT_BYTES
                      + Len(ret.tx.outputs) * OUTPUT_BYTES) * call.fee_rate

WideTarget == IF call.op = "select_utxos_u64" THEN call.target ELSE call.amount

WideCallOverflows ==
    IF call.op = "build_transparent_transaction_u64"
    THEN zec_build_overflows(call.utxos, call.amount, call.fee_rate)
    ELSE select_utxos_overflows(call.utxos, WideTarget, call.fee_rate)

\* C24: for every target, fee rate and UTXO amounts up to the largest u64
\* value, select_utxos, build_p2wpkh_transaction and
\* build_transparent_transaction never abort, report success only when the
\* unbounded sum of the selected amounts is at least the unbounded target plus
\* fee, and return an error whenever one of their operations overflows.
C24_NoSuccessOnOverflow ==
    (Returned /\ call.op \in WideOps) =>
        /\ ret.status # "Panic"
        /\ ret.status = "Ok" => SumSeq(WideSelectedAmounts) >= WideTarget + WideTrueFee
        /\ WideCallOverflows => ret.status = "Err"

(***************************************************************************)
(* C25  signature count and message header                                 *)
(***************************************************************************)
\* sign_transaction was given a transaction made by compile_transaction and
\* the private key of its fee payer, and has returned the wire bytes.
SignedByFeePayer ==
    /\ IsSolSign
    /\ ret.status = "Ok"
    /\ call.tx \in CompiledTransactions
    /\ verifying_key(call.private_key) = call.tx.account_keys[1]

\* C25: for every transaction returned by compile_transaction, an SPL
\* transfer whose owner is not the fee payer included, the signature count
\* that sign_transaction writes equals num_required_signatures of the message
\* header, and the signature that follows is the fee payer's signature of
\* the message.
C25_SignatureCountMatchesHeader ==
    SignedByFeePayer =>
        /\ ret.wire[1] = call.tx.num_required_signatures
        /\ Slice(ret.wire, 1, 1 + SIGNATURE_BYTES)
               = ed25519_sign(call.private_key, CallMessage)

(***************************************************************************)
(* C26  ZEC builds and the network of an address                           *)
(***************************************************************************)
\* validate_address returns Ok(true) for the address on the network.
IsTAddressOf(address, network) ==
    LET v == zec_validate_address(address, network)
    IN  v.status = "Ok" /\ v.valid

\* C26: build_transparent_transaction rejects with InvalidAddress every
\* recipient and every change address for which validate_address(address,
\* network) does not return Ok(true), an address with the version prefix of
\* the other network included; no output script is built from its payload.
C26_ZecAddressOfRequestedNetwork ==
    (/\ Returned
     /\ call.op = "build_transparent_transaction"
     /\ \/ ~IsTAddressOf(call.recipient, call.network)
        \/ ~IsTAddressOf(call.change_address, call.network))
        => (ret.status = "Err" /\ ret.kind = "InvalidAddress")

(***************************************************************************)
(* C27  chain-eth builders and the EIP-55 checksum                         *)
(***************************************************************************)
\* address::validate_address returns Ok(true) for the address.
IsValidEthAddress(address) ==
    LET v == eth_validate_address(address)
    IN  v.status = "Ok" /\ v.valid

\* The addresses a builder call names: the destination, and for an ERC-20
\* transfer the token contract as well.
BuilderAddresses ==
    IF call.op = "build_erc20_transfer" THEN {call.token_contract, call.to}
    ELSE {call.to}

\* C27: build_transfer and build_erc20_transfer reject with InvalidAddress
\* every destination or token-contract address for which validate_address
\* does not return Ok(true), a mixed-case address with a wrong EIP-55
\* checksum included; no transaction is returned for it.
C27_BuildersRequireValidAddress ==
    (/\ Returned
     /\ call.op \in {"build_transfer", "build_erc20_transfer"}
     /\ \E a \in BuilderAddresses : ~IsValidEthAddress(a))
        => (ret.status = "Err" /\ ret.kind = "InvalidAddress")

(***************************************************************************)
(* C28  a built transaction has inputs and outputs                         *)
(***************************************************************************)
BuiltInputCount ==
    IF call.op = "build_p2wpkh_transaction" THEN Len(ret.tx.input)
    ELSE Len(ret.tx.inputs)

BuiltOutputCount ==
    IF call.op = "build_p2wpkh_transaction" THEN Len(ret.tx.output)
    ELSE Len(ret.tx.outputs)

\* C28: every transaction returned by a successful build_p2wpkh_transaction
\* or build_transparent_transaction has at least one input and at least one
\* output, and a build from an empty UTXO list fails for every amount and fee
\* rate, amount 0 and fee rate 0 included.
C28_BuiltHasInputAndOutput ==
    (Returned /\ call.op \in {"build_p2wpkh_transaction",
                               "build_transparent_transaction"}) =>
        /\ ret.status = "Ok" => (BuiltInputCount >= 1 /\ BuiltOutputCount >= 1)
        /\ call.utxos = <<>> => ret.status = "Err"

(***************************************************************************)
(* C29  canonical compact-u16 encodings                                    *)
(***************************************************************************)
\* C29: whenever decode_compact_u16(data) returns Ok((v, n)), the first n
\* bytes of data are encode_compact_u16(v): an over-long encoding (a
\* continuation byte followed by a zero byte) and a third byte with its
\* continuation bit set are rejected with an error.
C29_DecodeAcceptsCanonicalOnly ==
    (Returned /\ call.op = "decode_compact_u16" /\ ret.status = "Ok") =>
        SubSeq(call.data, 1, ret.consumed) = encode_compact_u16(ret.value)

(***************************************************************************)
(* C30  Ed25519 accounts and child indices                                 *)
(***************************************************************************)
\* The child indices derive_ed25519_key feeds to the HMAC chain for an
\* account.
IndicesOf(account) == ed25519_child_indices(sol_derivation_path(account))

\* A path names the indices used: every component is a number below 2^31
\* with the hardened marker, and the index used for it is that number with
\* bit 31 set.
PathNames(path, indices) ==
    /\ Len(path) = Len(indices)
    /\ \A i \in 1..Len(path) :
           /\ path[i].hardened
           /\ ~path[i].number.high_bit
           /\ indices[i] = U32(TRUE, path[i].number.low)

\* C30: derive_ed25519_key never aliases accounts.  When it returns a key for
\* an account, every other u32 account number gives a different sequence of
\* child indices (an account at or above 2^31 fails with DerivationFailed or
\* uses other indices than the account 2^31 below it), and the reported
\* derivation_path names the indices that were used.
C30_NoAccountAliasing ==
    (Returned /\ call.op = "derive_ed25519_key") =>
        \/ ret.status = "Err" /\ ret.kind = "DerivationFailed"
        \/ /\ ret.status = "Ok"
           /\ \A b \in DeriveAccounts \ {call.account} :
                  IndicesOf(b) # IndicesOf(call.account)
           /\ PathNames(ret.derivation_path, IndicesOf(call.account))

====
